---------------------------- MODULE Spec2Model ----------------------------
(***************************************************************************)
(* Model of the in-memory product catalog (InMemoryProductRepository, the  *)
(* Product model) and of the search service with its result cache          *)
(* (SearchService, SearchQuery).                                            *)
(*                                                                         *)
(* Strings are sequences of one-character strings, so that lower-casing,   *)
(* splitting and stripping are computed and not assumed.  Ratings are      *)
(* counted in tenths (4.5 is 45).  Times are milliseconds.                 *)
(***************************************************************************)
EXTENDS Integers, Sequences, FiniteSets, TLC

VARIABLES products, nextId,
          searchIndex, categoryIndex, brandIndex,
          priceRangeIndex, ratingBucketIndex, stockStatusIndex,
          stats, searchCache, cacheStats, now, inflight, served, last,
          dataService

repoVars  == <<products, nextId, searchIndex, categoryIndex, brandIndex,
               priceRangeIndex, ratingBucketIndex, stockStatusIndex, stats>>
indexVars == <<searchIndex, categoryIndex, brandIndex,
               priceRangeIndex, ratingBucketIndex, stockStatusIndex>>
svcVars   == <<searchCache, cacheStats, now>>
\* dataService: the DataService of the process. productRepository and
\* searchService are 0 for null and else the number of the instance, counted
\* in the order of creation; calls holds the position of every invocation of
\* initialize; loads counts the bulk loads of the initial data
vars      == <<products, nextId, searchIndex, categoryIndex, brandIndex,
               priceRangeIndex, ratingBucketIndex, stockStatusIndex, stats,
               searchCache, cacheStats, now, inflight, served, last, dataService>>

-----------------------------------------------------------------------------
(* Bounds of the model *)

\* largest product id the repository issues or is handed
MaxId == 2

\* capacity of the result cache in the model (the service sets 1000)
maxCacheSize == 3

\* searches that can be between two of their awaits at the same time
MaxInflight == 2

\* searches that reach the cache lookup in one behaviour: of callers that
\* overlap, and of a caller that awaits each search
MaxSearches == 5
MaxRepeats == 3

\* the clock advances in steps of TickStep milliseconds, up to MaxNow
TickStep == 150000
MaxNow == 300000

\* products in the catalog that is searched while it grows
MaxCatalog == 1

\* the most searches over the bulk-loaded catalog
MaxShelfSearches == 2

-----------------------------------------------------------------------------
(* JavaScript values *)

\* the value of a missing string property: no string, its one element is not a character
Undefined == <<"undefined">>

\* Boolean(s) for a string-or-undefined value
Truthy(s) == s /= Undefined /\ s /= <<>>

Range(f) == {f[x] : x \in DOMAIN f}

UpperChars == <<"A","B","C","D","E","F","G","H","I","J","K","L","M",
                "N","O","P","Q","R","S","T","U","V","W","X","Y","Z">>
LowerChars == <<"a","b","c","d","e","f","g","h","i","j","k","l","m",
                "n","o","p","q","r","s","t","u","v","w","x","y","z">>
DigitChars == {"0","1","2","3","4","5","6","7","8","9"}

IsSpace(c) == c = " "

\* the lower-case letter of every upper-case letter
LowerOf == [c \in Range(UpperChars) |->
              LowerChars[CHOOSE i \in 1..26 : UpperChars[i] = c]]

ToLowerChar(c) == IF c \in DOMAIN LowerOf THEN LowerOf[c] ELSE c

\* String.prototype.toLowerCase
toLowerCase(s) == [i \in 1..Len(s) |-> ToLowerChar(s[i])]

\* the character class [a-z0-9]
LowerAlnumChars == Range(LowerChars) \cup DigitChars

IsLowerAlnum(c) == c \in LowerAlnumChars

\* term.replace(/[^a-z0-9]/g, "")
RECURSIVE StripNonAlnum(_)
StripNonAlnum(s) ==
  IF s = <<>> THEN <<>>
  ELSE IF IsLowerAlnum(Head(s)) THEN <<Head(s)>> \o StripNonAlnum(Tail(s))
       ELSE StripNonAlnum(Tail(s))

\* String.prototype.split(/\s+/): cur is the piece being read, inGap says
\* that the previous character was white space
RECURSIVE SplitFrom(_, _, _)
SplitFrom(s, cur, inGap) ==
  IF s = <<>> THEN <<cur>>
  ELSE IF IsSpace(Head(s))
       THEN IF inGap THEN SplitFrom(Tail(s), cur, TRUE)
            ELSE <<cur>> \o SplitFrom(Tail(s), <<>>, TRUE)
       ELSE SplitFrom(Tail(s), Append(cur, Head(s)), FALSE)

SplitWhitespace(s) == SplitFrom(s, <<>>, FALSE)

\* Array.prototype.join(" ")
RECURSIVE JoinSpace(_)
JoinSpace(parts) ==
  IF parts = <<>> THEN <<>>
  ELSE IF Len(parts) = 1 THEN parts[1]
       ELSE parts[1] \o <<" ">> \o JoinSpace(Tail(parts))

\* Array.prototype.filter(Boolean) over strings and undefined
FilterTruthy(parts) == SelectSeq(parts, Truthy)

LongerThanOne(t) == Len(t) > 1


-----------------------------------------------------------------------------
(* Product *)

\* data.<f> for a string property of a raw object
StrField(data, f) == IF f \in DOMAIN data THEN data[f] ELSE Undefined

\* data.<f> || dflt
OrDefault(data, f, dflt) == IF f \in DOMAIN data THEN data[f] ELSE dflt

\* s.trim().length === 0
IsBlank(s) == \A i \in 1..Len(s) : IsSpace(s[i])

\* Object.values(metadata): metadata is a sequence of <<key, value>> pairs in key order
MetadataValues(metadata) == [i \in 1..Len(metadata) |-> metadata[i][2]]

\* { ...metadata, ...newMetadata }: a key that exists keeps its place, new keys follow
RECURSIVE MergeMetadata(_, _)
MergeMetadata(metadata, newMetadata) ==
  IF newMetadata = <<>> THEN metadata
  ELSE LET kv == Head(newMetadata)
           at == {i \in 1..Len(metadata) : metadata[i][1] = kv[1]}
       IN MergeMetadata(IF at = {} THEN Append(metadata, kv)
                        ELSE [metadata EXCEPT ![CHOOSE i \in at : TRUE] = kv],
                        Tail(newMetadata))

\* Product.generateSearchableText: tags is the value of this.tags when it runs
generateSearchableText(title, description, brand, model, category, subcategory, tags, metadata) ==
  toLowerCase(JoinSpace(FilterTruthy(
      <<title, description, brand, model, category, subcategory>>
      \o tags \o MetadataValues(metadata))))

\* Product.validate, on the values the constructor has assigned:
\* the message of the Error it throws, or "none"
validate(title, hasPrice, price, rating, stock) ==
  IF ~Truthy(title) \/ IsBlank(title) THEN "Product title is required"
  ELSE IF ~hasPrice \/ price <= 0 THEN "Product price must be greater than 0"
  ELSE IF rating < 0 \/ rating > 50 THEN "Rating must be between 0 and 5"
  ELSE IF stock < 0 THEN "Stock cannot be negative"
  ELSE "none"

\* what new Product(data) throws, or "none"
ProductError(data) ==
  validate(StrField(data, "title"), "price" \in DOMAIN data,
           OrDefault(data, "price", 0), OrDefault(data, "rating", 0),
           OrDefault(data, "stock", 0))

\* the searchableText the constructor assigns: this.tags is not yet assigned
\* when generateSearchableText runs, so it reads `this.tags || []` as []
ConstructorSearchableText(data) ==
  IF Truthy(StrField(data, "searchableText")) THEN data.searchableText
  ELSE generateSearchableText(StrField(data, "title"), StrField(data, "description"),
                              StrField(data, "brand"), StrField(data, "model"),
                              StrField(data, "category"), StrField(data, "subcategory"),
                              <<>>, OrDefault(data, "metadata", <<>>))

\* new Product(data), for data that validates; data.productId is always given by the repository
Product(data) ==
  [productId      |-> data.productId,
   title          |-> StrField(data, "title"),
   description    |-> StrField(data, "description"),
   category       |-> StrField(data, "category"),
   subcategory    |-> StrField(data, "subcategory"),
   brand          |-> StrField(data, "brand"),
   model          |-> StrField(data, "model"),
   price          |-> data.price,
   rating         |-> OrDefault(data, "rating", 0),
   ratingCount    |-> OrDefault(data, "ratingCount", 0),
   stock          |-> OrDefault(data, "stock", 0),
   isActive       |-> OrDefault(data, "isActive", TRUE),
   metadata       |-> OrDefault(data, "metadata", <<>>),
   searchableText |-> ConstructorSearchableText(data),
   tags           |-> OrDefault(data, "tags", <<>>)]

\* Product.toJSON: every property, under its own name
toJSON(product) == product

\* { ...a, ...b }
Spread(a, b) ==
  [f \in (DOMAIN a) \cup (DOMAIN b) |-> IF f \in DOMAIN b THEN b[f] ELSE a[f]]

\* Product.updateMetadata: in place
ProductUpdateMetadata(product, newMetadata) ==
  LET merged == MergeMetadata(product.metadata, newMetadata)
  IN [product EXCEPT
        !.metadata = merged,
        !.searchableText =
           generateSearchableText(product.title, product.description, product.brand,
                                  product.model, product.category, product.subcategory,
                                  product.tags, merged)]

\* Product.getStockStatus
getStockStatus(product) ==
  IF product.stock = 0 THEN "OUT_OF_STOCK"
  ELSE IF product.stock <= 10 THEN "LOW_STOCK"
  ELSE IF product.stock <= 50 THEN "MEDIUM_STOCK"
  ELSE "HIGH_STOCK"

\* Product.getPriceRange
getPriceRange(product) ==
  IF product.price < 1000 THEN "0-1000"
  ELSE IF product.price < 5000 THEN "1000-5000"
  ELSE IF product.price < 10000 THEN "5000-10000"
  ELSE IF product.price < 25000 THEN "10000-25000"
  ELSE IF product.price < 50000 THEN "25000-50000"
  ELSE IF product.price < 100000 THEN "50000-100000"
  ELSE "100000+"

\* Product.getRatingBucket (ratings in tenths)
getRatingBucket(product) ==
  IF product.rating >= 45 THEN "4.5+"
  ELSE IF product.rating >= 40 THEN "4.0-4.5"
  ELSE IF product.rating >= 35 THEN "3.5-4.0"
  ELSE IF product.rating >= 30 THEN "3.0-3.5"
  ELSE IF product.rating >= 20 THEN "2.0-3.0"
  ELSE "below-2.0"

-----------------------------------------------------------------------------
(* InMemoryProductRepository: the indexes *)

\* a Map with no entries
EmptyMap == [k \in {} |-> {}]

\* index.get(key) || new Set()
Listed(index, key) == IF key \in DOMAIN index THEN index[key] ELSE {}

\* extractSearchTerms
extractSearchTerms(text) ==
  IF ~Truthy(text) THEN <<>>
  ELSE LET pieces   == SelectSeq(SplitWhitespace(toLowerCase(text)), LongerThanOne)
           stripped == [i \in 1..Len(pieces) |-> StripNonAlnum(pieces[i])]
       IN SelectSeq(stripped, LongerThanOne)

\* if (!index.has(key)) index.set(key, new Set()); index.get(key).add(id)
IndexAdd(index, key, id) ==
  [k \in (DOMAIN index) \cup {key} |->
     IF k = key THEN (IF key \in DOMAIN index THEN index[key] ELSE {}) \cup {id}
     ELSE index[k]]

\* the removal that forgets to drop a key whose set became empty
IndexRemoveKeepEmpty(index, key, id) ==
  IF key \notin DOMAIN index THEN index
  ELSE [index EXCEPT ![key] = @ \ {id}]

\* ids = index.get(key); if (ids) { ids.delete(id); if (ids.size === 0) index.delete(key) }
IndexRemove(index, key, id) ==
  IF key \notin DOMAIN index THEN index
  ELSE IF index[key] \ {id} = {}
       THEN [k \in (DOMAIN index) \ {key} |-> index[k]]
       ELSE [index EXCEPT ![key] = @ \ {id}]

\* for (const term of terms) add
RECURSIVE AddTerms(_, _, _)
AddTerms(index, terms, id) ==
  IF terms = <<>> THEN index
  ELSE AddTerms(IndexAdd(index, Head(terms), id), Tail(terms), id)

\* for (const term of terms) remove
RECURSIVE RemoveTerms(_, _, _)
RemoveTerms(index, terms, id) ==
  IF terms = <<>> THEN index
  ELSE RemoveTerms(IndexRemove(index, Head(terms), id), Tail(terms), id)

addToSearchIndex(index, product) ==
  AddTerms(index, extractSearchTerms(product.searchableText), product.productId)

removeFromSearchIndex(index, product) ==
  RemoveTerms(index, extractSearchTerms(product.searchableText), product.productId)

addToCategoryIndex(index, product) ==
  IF Truthy(product.category)
  THEN IndexAdd(index, toLowerCase(product.category), product.productId)
  ELSE index

removeFromCategoryIndex(index, product) ==
  IF Truthy(product.category)
  THEN IndexRemove(index, toLowerCase(product.category), product.productId)
  ELSE index

addToBrandIndex(index, product) ==
  IF Truthy(product.brand)
  THEN IndexAdd(index, toLowerCase(product.brand), product.productId)
  ELSE index

removeFromBrandIndex(index, product) ==
  IF Truthy(product.brand)
  THEN IndexRemove(index, toLowerCase(product.brand), product.productId)
  ELSE index

addToPriceRangeIndex(index, product) ==
  IndexAdd(index, getPriceRange(product), product.productId)

removeFromPriceRangeIndex(index, product) ==
  IndexRemove(index, getPriceRange(product), product.productId)

addToRatingBucketIndex(index, product) ==
  IndexAdd(index, getRatingBucket(product), product.productId)

removeFromRatingBucketIndex(index, product) ==
  IndexRemove(index, getRatingBucket(product), product.productId)

addToStockStatusIndex(index, product) ==
  IndexAdd(index, getStockStatus(product), product.productId)

removeFromStockStatusIndex(index, product) ==
  IndexRemove(index, getStockStatus(product), product.productId)

\* the six indexes as one record, in the order of indexVars
Indexes == [search |-> searchIndex, category |-> categoryIndex, brand |-> brandIndex,
            priceRange |-> priceRangeIndex, ratingBucket |-> ratingBucketIndex,
            stockStatus |-> stockStatusIndex]

\* updateIndexes(product)
updateIndexes(ix, product) ==
  [search       |-> addToSearchIndex(ix.search, product),
   category     |-> addToCategoryIndex(ix.category, product),
   brand        |-> addToBrandIndex(ix.brand, product),
   priceRange   |-> addToPriceRangeIndex(ix.priceRange, product),
   ratingBucket |-> addToRatingBucketIndex(ix.ratingBucket, product),
   stockStatus  |-> addToStockStatusIndex(ix.stockStatus, product)]

\* removeFromIndexes(product)
removeFromIndexes(ix, product) ==
  [search       |-> removeFromSearchIndex(ix.search, product),
   category     |-> removeFromCategoryIndex(ix.category, product),
   brand        |-> removeFromBrandIndex(ix.brand, product),
   priceRange   |-> removeFromPriceRangeIndex(ix.priceRange, product),
   ratingBucket |-> removeFromRatingBucketIndex(ix.ratingBucket, product),
   stockStatus  |-> removeFromStockStatusIndex(ix.stockStatus, product)]

\* the assignment of the six index variables
SetIndexes(ix) ==
  /\ searchIndex'       = ix.search
  /\ categoryIndex'     = ix.category
  /\ brandIndex'        = ix.brand
  /\ priceRangeIndex'   = ix.priceRange
  /\ ratingBucketIndex' = ix.ratingBucket
  /\ stockStatusIndex'  = ix.stockStatus

\* this.products.set(id, product)
MapSet(map, id, product) ==
  [k \in (DOMAIN map) \cup {id} |-> IF k = id THEN product ELSE map[k]]


\* updateStats: the counts it stores (lastUpdated is a wall-clock reading)
updateStats(prods, ix) ==
  [totalProducts     |-> Cardinality(DOMAIN prods),
   totalIndexEntries |-> Cardinality(DOMAIN ix.search) + Cardinality(DOMAIN ix.category)
                         + Cardinality(DOMAIN ix.brand) + Cardinality(DOMAIN ix.priceRange)
                         + Cardinality(DOMAIN ix.ratingBucket)
                         + Cardinality(DOMAIN ix.stockStatus)]

-----------------------------------------------------------------------------
(* SearchQuery *)

\* an absent number (null) is <<>>, a number n is <<n>>
Null == <<>>

\* an absent bucket name or sortBy
NoName == ""

\* the regular-expression class \w
IsWordChar(c) == c \in Range(UpperChars) \cup LowerAlnumChars \cup {"_"}

\* new RegExp(`\\b${word}\\b`) matches s at position i
WordMatchesAt(s, i, word) ==
  /\ i + Len(word) - 1 <= Len(s)
  /\ \A j \in 1..Len(word) : ToLowerChar(s[i + j - 1]) = word[j]
  /\ i = 1 \/ ~IsWordChar(s[i - 1])
  /\ i + Len(word) > Len(s) \/ ~IsWordChar(s[i + Len(word)])

\* s.replace(new RegExp(`\\b${word}\\b`, "gi"), by), from position i on
RECURSIVE ReplaceWordFrom(_, _, _, _)
ReplaceWordFrom(s, i, word, by) ==
  IF i > Len(s) THEN <<>>
  ELSE IF WordMatchesAt(s, i, word)
       THEN by \o ReplaceWordFrom(s, i + Len(word), word, by)
       ELSE <<s[i]>> \o ReplaceWordFrom(s, i + 1, word, by)

\* for (const [from, to] of Object.entries(map)) query = query.replace(...)
RECURSIVE ReplaceAllWords(_, _)
ReplaceAllWords(s, entries) ==
  IF entries = <<>> THEN s
  ELSE ReplaceAllWords(ReplaceWordFrom(s, 1, entries[1][1], entries[1][2]), Tail(entries))

hinglishMap ==
  << <<<<"s","a","s","t","a">>, <<"c","h","e","a","p">>>>,
     <<<<"s","a","s","t","e","y">>, <<"c","h","e","a","p">>>>,
     <<<<"s","a","s","t","e">>, <<"c","h","e","a","p">>>>,
     <<<<"a","c","c","h","a">>, <<"g","o","o","d">>>>,
     <<<<"a","c","h","h","a">>, <<"g","o","o","d">>>>,
     <<<<"a","c","c","h","e">>, <<"g","o","o","d">>>>,
     <<<<"b","e","s","t">>, <<"b","e","s","t">>>>,
     <<<<"l","a","t","e","s","t">>, <<"l","a","t","e","s","t">>>>,
     <<<<"n","e","w">>, <<"n","e","w">>>>,
     <<<<"p","u","r","a","n","a">>, <<"o","l","d">>>>,
     <<<<"p","h","o","n","e">>, <<"p","h","o","n","e">>>>,
     <<<<"m","o","b","i","l","e">>, <<"m","o","b","i","l","e">>>>,
     <<<<"l","a","p","t","o","p">>, <<"l","a","p","t","o","p">>>>,
     <<<<"h","e","a","d","p","h","o","n","e">>, <<"h","e","a","d","p","h","o","n","e">>>>,
     <<<<"e","a","r","p","h","o","n","e">>, <<"e","a","r","p","h","o","n","e">>>>,
     <<<<"c","o","v","e","r">>, <<"c","o","v","e","r">>>>,
     <<<<"c","a","s","e">>, <<"c","a","s","e">>>>,
     <<<<"c","h","a","r","g","e","r">>, <<"c","h","a","r","g","e","r">>>>,
     <<<<"p","a","i","s","a">>, <<"r","u","p","e","e","s">>>>,
     <<<<"r","u","p","e","e","s">>, <<"r","u","p","e","e","s">>>>,
     <<<<"r","s">>, <<"r","u","p","e","e","s">>>>,
     <<<<"p","r","i","c","e">>, <<"p","r","i","c","e">>>> >>

misspellingMap ==
  << <<<<"i","f","o","n","e">>, <<"i","p","h","o","n","e">>>>,
     <<<<"i","p","h","o","n","e">>, <<"i","p","h","o","n","e">>>>,
     <<<<"s","a","m","s","a","n","g">>, <<"s","a","m","s","u","n","g">>>>,
     <<<<"s","a","m","s","o","o","n","g">>, <<"s","a","m","s","u","n","g">>>>,
     <<<<"l","a","p","t","o","p">>, <<"l","a","p","t","o","p">>>>,
     <<<<"l","e","p","t","o","p">>, <<"l","a","p","t","o","p">>>>,
     <<<<"h","e","d","p","h","o","n","e">>, <<"h","e","a","d","p","h","o","n","e">>>>,
     <<<<"h","e","d","p","h","o","n","e","s">>, <<"h","e","a","d","p","h","o","n","e","s">>>>,
     <<<<"m","o","b","l","i","l","e">>, <<"m","o","b","i","l","e">>>>,
     <<<<"m","o","b","i","l">>, <<"m","o","b","i","l","e">>>>,
     <<<<"c","h","a","r","j","e","r">>, <<"c","h","a","r","g","e","r">>>>,
     <<<<"c","h","a","r","g","u","r">>, <<"c","h","a","r","g","e","r">>>>,
     <<<<"c","o","v","r">>, <<"c","o","v","e","r">>>>,
     <<<<"c","v","e","r">>, <<"c","o","v","e","r">>>> >>

normalizeHinglishQuery(query) == ReplaceAllWords(query, hinglishMap)

correctCommonMisspellings(query) == ReplaceAllWords(query, misspellingMap)

\* String.prototype.trim
RECURSIVE TrimLeft(_)
TrimLeft(s) == IF s /= <<>> /\ IsSpace(Head(s)) THEN TrimLeft(Tail(s)) ELSE s

RECURSIVE TrimRight(_)
TrimRight(s) ==
  IF s /= <<>> /\ IsSpace(s[Len(s)]) THEN TrimRight(SubSeq(s, 1, Len(s) - 1)) ELSE s

trim(s) == TrimRight(TrimLeft(s))

\* SearchQuery.normalize
normalize(query) ==
  correctCommonMisspellings(normalizeHinglishQuery(toLowerCase(trim(query))))

\* params.<f> ? parseFloat(params.<f>) : null
NumberOrNull(params, f) ==
  IF f \in DOMAIN params /\ params[f] /= 0 THEN <<params[f]>> ELSE Null

Min(a, b) == IF a < b THEN a ELSE b
Max(a, b) == IF a > b THEN a ELSE b

\* the string "true" and the boolean true of a parameter object
JsStringTrue == "'true'"
JsBooleanTrue == "true"

validSortOptions == {"relevance", "price_low", "price_high", "rating", "popularity", "newest"}

\* the fields the SearchQuery constructor assigns before validate and normalize
SearchQueryFields(params) ==
  [query       |-> IF "query" \in DOMAIN params /\ params.query /= <<>>
                   THEN params.query ELSE <<>>,
   limit       |-> Min(IF "limit" \in DOMAIN params /\ params.limit /= 0
                       THEN params.limit ELSE 20, 100),
   offset      |-> Max(OrDefault(params, "offset", 0), 0),
   sortBy      |-> IF "sortBy" \in DOMAIN params /\ params.sortBy /= NoName
                   THEN params.sortBy ELSE "relevance",
   category    |-> StrField(params, "category"),
   brand       |-> StrField(params, "brand"),
   minPrice    |-> NumberOrNull(params, "minPrice"),
   maxPrice    |-> NumberOrNull(params, "maxPrice"),
   minRating   |-> NumberOrNull(params, "minRating"),
   inStock     |-> OrDefault(params, "inStock", NoName) = JsStringTrue,
   priceRange  |-> OrDefault(params, "priceRange", NoName),
   ratingRange |-> OrDefault(params, "ratingRange", NoName)]

\* SearchQuery.validate: the message of the Error it throws, or "none"
validateQuery(q) ==
  IF q.minPrice /= Null /\ q.maxPrice /= Null /\ q.minPrice[1] > q.maxPrice[1]
  THEN "Minimum price cannot be greater than maximum price"
  ELSE IF q.minRating /= Null /\ (q.minRating[1] < 0 \/ q.minRating[1] > 50)
  THEN "Rating must be between 0 and 5"
  ELSE IF q.sortBy \notin validSortOptions THEN "Invalid sortBy value"
  ELSE "none"

\* what new SearchQuery(params) throws, or "none"
SearchQueryError(params) == validateQuery(SearchQueryFields(params))

\* new SearchQuery(params), for params that validate
SearchQuery(params) ==
  [SearchQueryFields(params) EXCEPT !.query = normalize(@)]

\* SearchQuery.matchesFilters throws a TypeError: toLowerCase of an undefined
\* category or brand
matchesFiltersThrows(q, product) ==
  \/ Truthy(q.category) /\ product.category = Undefined
  \/ /\ ~(Truthy(q.category) /\ toLowerCase(product.category) /= toLowerCase(q.category))
     /\ Truthy(q.brand) /\ product.brand = Undefined

\* SearchQuery.matchesFilters, where it does not throw
matchesFilters(q, product) ==
  /\ ~(Truthy(q.category) /\ toLowerCase(product.category) /= toLowerCase(q.category))
  /\ ~(Truthy(q.brand) /\ toLowerCase(product.brand) /= toLowerCase(q.brand))
  /\ ~(q.minPrice /= Null /\ product.price < q.minPrice[1])
  /\ ~(q.maxPrice /= Null /\ product.price > q.maxPrice[1])
  /\ ~(q.minRating /= Null /\ product.rating < q.minRating[1])
  /\ ~(q.inStock /\ product.stock <= 0)


-----------------------------------------------------------------------------
(* SearchService: the result cache *)

\* time to live of a cache entry, in milliseconds
TTL == 300000

\* JSON.stringify(searchQuery.toJSON()) in base64: the properties that are not
\* undefined, each under its name
generateCacheKey(q) ==
  LET absent == {f \in {"category", "brand"} : q[f] = Undefined}
                \cup {f \in {"priceRange", "ratingRange"} : q[f] = NoName}
  IN [f \in (DOMAIN q) \ absent |-> q[f]]

\* the cache is the Map's entries in the order of the insertion of their keys
CacheIndex(cache, key) == {i \in 1..Len(cache) : cache[i].key = key}

CacheHas(cache, key) == CacheIndex(cache, key) /= {}

\* searchCache.get(key), for a key the cache has
CacheGet(cache, key) == cache[CHOOSE i \in CacheIndex(cache, key) : TRUE]

\* searchCache.delete(key)
CacheDelete(cache, key) == SelectSeq(cache, LAMBDA e : e.key /= key)

\* searchCache.set(key, value): a key the Map has keeps its place
CacheSet(cache, key, data, timestamp) ==
  LET entry == [key |-> key, data |-> data, timestamp |-> timestamp]
  IN IF CacheHas(cache, key)
     THEN [i \in 1..Len(cache) |-> IF cache[i].key = key THEN entry ELSE cache[i]]
     ELSE Append(cache, entry)

\* getFromCache with the entry still served at the age of TTL
getFromCacheAtTtl(cache, key, t) ==
  IF CacheHas(cache, key) /\ t - CacheGet(cache, key).timestamp <= TTL
  THEN [found |-> TRUE, cache |-> cache]
  ELSE [found |-> FALSE, cache |-> CacheDelete(cache, key)]

\* getFromCache(key) at time t: whether it returns the entry's data, and the
\* cache it leaves
getFromCache(cache, key, t) ==
  IF CacheHas(cache, key) /\ t - CacheGet(cache, key).timestamp < TTL
  THEN [found |-> TRUE, cache |-> cache]
  ELSE [found |-> FALSE, cache |-> CacheDelete(cache, key)]

\* addToCache(key, data) at time t: the cache it leaves and the entries it evicted
addToCache(cache, key, data, t) ==
  LET full == Len(cache) >= maxCacheSize
      kept == IF full THEN Tail(cache) ELSE cache
  IN [cache   |-> CacheSet(kept, key, data, t),
      evicted |-> IF full THEN <<Head(cache)>> ELSE <<>>]

\* cacheStats.hits++
CountMiss(cs) == [cs EXCEPT !.misses = @ + 1]
CountHit(cs) == [cs EXCEPT !.hits = @ + 1]
CountEvictions(cs, n) == [cs EXCEPT !.evictions = @ + n]

-----------------------------------------------------------------------------
(* SearchService: performSearch *)

\* the elements of a set of ids in ascending order
RECURSIVE Ascending(_)
Ascending(ids) ==
  IF ids = {} THEN <<>>
  ELSE LET least == CHOOSE i \in ids : \A j \in ids : i <= j
       IN <<least>> \o Ascending(ids \ {least})

\* Array.from(this.productRepository.products.values()): ids are handed out in
\* ascending order, which is the order of insertion
AllProducts(prods) ==
  LET ids == Ascending(DOMAIN prods) IN [i \in 1..Len(ids) |-> prods[ids[i]]]

\* a search that takes the products listed under every token of the query
RepositorySearchAllTokens(prods, ix, query, options) ==
  LET terms == extractSearchTerms(query)
      ids   == Ascending({id \in DOMAIN prods :
                            \A i \in 1..Len(terms) : id \in Listed(ix.search, terms[i])})
  IN [i \in 1..Len(ids) |-> prods[ids[i]]]

\* InMemoryProductRepository.search(query, options)
RepositorySearch(prods, ix, query, options) ==
  LET terms    == extractSearchTerms(query)
      matching == UNION {Listed(ix.search, terms[i]) : i \in 1..Len(terms)}
      found    == matching \cap DOMAIN prods
      inCategory == IF Truthy(options.category)
                    THEN Listed(ix.category, toLowerCase(options.category)) ELSE found
      inBrand    == IF Truthy(options.brand)
                    THEN Listed(ix.brand, toLowerCase(options.brand)) ELSE found
      inPrice    == IF options.priceRange /= NoName
                    THEN Listed(ix.priceRange, options.priceRange) ELSE found
      inRating   == IF options.ratingRange /= NoName
                    THEN Listed(ix.ratingBucket, options.ratingRange) ELSE found
      inStock    == IF options.inStock
                    THEN Listed(ix.stockStatus, "HIGH_STOCK")
                         \cup Listed(ix.stockStatus, "MEDIUM_STOCK")
                         \cup Listed(ix.stockStatus, "LOW_STOCK")
                    ELSE found
      ids == Ascending(found \cap inCategory \cap inBrand \cap inPrice
                       \cap inRating \cap inStock)
  IN [i \in 1..Len(ids) |-> prods[ids[i]]]

\* the comparator of getSortFunction, as the sign that decides the order;
\* relevance, popularity and newest compare scores and dates the model does
\* not carry: the products searched here tie on them
Compare(sortBy, a, b) ==
  CASE sortBy = "price_low"  -> a.price - b.price
    [] sortBy = "price_high" -> b.price - a.price
    [] sortBy = "rating"     -> IF b.rating /= a.rating THEN b.rating - a.rating
                                ELSE b.ratingCount - a.ratingCount
    [] OTHER -> 0

\* Array.prototype.sort is stable: an element goes behind those it does not precede
RECURSIVE InsertOrdered(_, _, _)
InsertOrdered(sorted, x, sortBy) ==
  IF sorted = <<>> THEN <<x>>
  ELSE IF Compare(sortBy, x, Head(sorted)) < 0 THEN <<x>> \o sorted
  ELSE <<Head(sorted)>> \o InsertOrdered(Tail(sorted), x, sortBy)

RECURSIVE SortProducts(_, _)
SortProducts(prods, sortBy) ==
  IF prods = <<>> THEN <<>>
  ELSE InsertOrdered(SortProducts(SubSeq(prods, 1, Len(prods) - 1), sortBy),
                     prods[Len(prods)], sortBy)

\* Array.prototype.slice(start, end) for start >= 0
Slice(s, start, end) ==
  LET to == IF end < 0 THEN Max(Len(s) + end, 0) ELSE Min(end, Len(s))
  IN SubSeq(s, start + 1, to)

\* the projection of a product without toSearchResult (the scored copies are
\* plain objects); mrp, currency, discount, images and the score are not modelled
SearchResult(product) ==
  [productId   |-> product.productId,
   title       |-> product.title,
   description |-> product.description,
   price       |-> product.price,
   rating      |-> product.rating,
   ratingCount |-> product.ratingCount,
   stock       |-> product.stock,
   stockStatus |-> IF product.stock = 0 THEN "OUT_OF_STOCK"
                   ELSE IF product.stock <= 10 THEN "LOW_STOCK" ELSE "HIGH_STOCK",
   brand       |-> product.brand,
   category    |-> product.category,
   metadata    |-> product.metadata,
   tags        |-> product.tags]

\* products.filter(matchesFilters) throws
FilterThrows(q, prods) == \E i \in 1..Len(prods) : matchesFiltersThrows(q, prods[i])

\* performSearch from the filter on: the response for the candidates prods
performSearch(q, prods, executionTime) ==
  LET filtered == SelectSeq(prods, LAMBDA product : matchesFilters(q, product))
      sorted   == SortProducts(filtered, q.sortBy)
      page     == Slice(sorted, q.offset, q.offset + q.limit)
  IN [data          |-> [i \in 1..Len(page) |-> SearchResult(page[i])],
      totalResults  |-> Len(sorted),
      query         |-> q.query,
      filters       |-> [category |-> q.category, brand |-> q.brand,
                         minPrice |-> q.minPrice, maxPrice |-> q.maxPrice,
                         minRating |-> q.minRating, inStock |-> q.inStock],
      pagination    |-> [limit |-> q.limit, offset |-> q.offset,
                         hasNext |-> q.offset + q.limit < Len(sorted),
                         hasPrevious |-> q.offset > 0],
      sortBy        |-> q.sortBy,
      executionTime |-> executionTime]

-----------------------------------------------------------------------------
(* SearchService with the festive season strategy: performSearch *)

\* newProductThreshold = 30 * 24 * 60 * 60 * 1000: thirty days, of 86400000
\* milliseconds each
newProductDays == 30

MillisecondsPerDay == 86400000

\* isNewProduct(product). The products are created after the process started
\* (time 0), so productAge is at most `now`; they carry no analytics, whose
\* absent unitsSold counts as 0 and is below 10
isNewProduct(product) ==
  LET productAge == now
      unitsSold  == 0
  IN \/ productAge \div MillisecondsPerDay < newProductDays
     \/ unitsSold < 10
     \/ product.ratingCount < 5

festiveCategories ==
  { <<"d","i","w","a","l","i">>,
    <<"d","u","s","s","e","h","r","a">>,
    <<"h","o","l","i">>,
    <<"c","h","r","i","s","t","m","a","s">>,
    <<"e","i","d">>,
    <<"r","a","k","h","i">>,
    <<"k","a","r","v","a","-","c","h","a","u","t","h">>,
    <<"g","a","n","e","s","h","-","c","h","a","t","u","r","t","h","i">>,
    <<"n","a","v","r","a","t","r","i">>,
    <<"v","a","l","e","n","t","i","n","e">> }

festiveKeywords ==
  { <<"f","e","s","t","i","v","e">>,
    <<"c","e","l","e","b","r","a","t","i","o","n">>,
    <<"g","i","f","t">>,
    <<"t","r","a","d","i","t","i","o","n","a","l">>,
    <<"e","t","h","n","i","c">>,
    <<"d","e","c","o","r","a","t","i","o","n">>,
    <<"p","o","o","j","a">>,
    <<"w","e","d","d","i","n","g">>,
    <<"p","a","r","t","y">>,
    <<"s","p","e","c","i","a","l"," ","o","c","c","a","s","i","o","n">> }

\* String.prototype.includes
Includes(s, sub) ==
  \E i \in 0..(Len(s) - Len(sub)) : SubSeq(s, i + 1, i + Len(sub)) = sub

\* value || ""
OrEmpty(s) == IF s = Undefined THEN <<>> ELSE s

\* getCurrentFestiveSeason() finds no season
NoSeason == [festiveSlots |-> 0, addedInRange |-> FALSE]

\* what the calendar makes of getCurrentFestiveSeason(): no season, or a season
\* with the festiveSlots that the days to its peak give (4 within 7 days, 3
\* within 14, else 2), in which the products were added (isDateInFestiveRange
\* of their createdAt) or before which they were added
Seasons ==
  {NoSeason} \cup [festiveSlots : {2, 3, 4}, addedInRange : BOOLEAN]

\* isFestiveProduct(product) in the season
isFestiveProduct(product, season) ==
  LET category   == toLowerCase(OrEmpty(product.category))
      tags       == [i \in 1..Len(product.tags) |-> toLowerCase(product.tags[i])]
      searchText == toLowerCase(product.title \o <<" ">> \o OrEmpty(product.description))
  IN \/ \E fc \in festiveCategories : Includes(category, fc)
     \/ \E i \in 1..Len(tags) : tags[i] \in festiveCategories \cup festiveKeywords
     \/ \E keyword \in festiveKeywords : Includes(searchText, keyword)
     \/ season /= NoSeason /\ season.addedInRange

\* applyFestiveInjectionStrategy(products, searchQuery, season), but for the
\* random boost of relevanceScore, which the model does not carry
applyFestiveInjectionStrategy(prods, season) ==
  LET festiveProducts == SelectSeq(prods, LAMBDA p : isFestiveProduct(p, season))
      regularProducts == SelectSeq(prods, LAMBDA p : ~isFestiveProduct(p, season))
  IN SelectSeq(festiveProducts, isNewProduct)
     \o SelectSeq(festiveProducts, LAMBDA p : ~isNewProduct(p))
     \o regularProducts

\* the loops of injectNewProductsInResults from position i on: position i
\* takes the next of `first` when i is in firstAt, else the next of `second`
\* when i is in secondAt, else the next of `remaining`, and nothing when the
\* list it would take from is used up
RECURSIVE InjectFrom(_, _, _, _, _, _, _, _, _, _)
InjectFrom(i, n, firstAt, first, secondAt, second, remaining, fi, si, ri) ==
  IF i >= n THEN <<>>
  ELSE IF i \in firstAt /\ fi < Len(first)
  THEN <<first[fi + 1]>>
       \o InjectFrom(i + 1, n, firstAt, first, secondAt, second, remaining, fi + 1, si, ri)
  ELSE IF i \in secondAt /\ si < Len(second)
  THEN <<second[si + 1]>>
       \o InjectFrom(i + 1, n, firstAt, first, secondAt, second, remaining, fi, si + 1, ri)
  ELSE IF ri < Len(remaining)
  THEN <<remaining[ri + 1]>>
       \o InjectFrom(i + 1, n, firstAt, first, secondAt, second, remaining, fi, si, ri + 1)
  ELSE InjectFrom(i + 1, n, firstAt, first, secondAt, second, remaining, fi, si, ri)

\* injectNewProductsInResults(sortedProducts, searchQuery)
injectNewProductsInResults(sortedProducts, q, season) ==
  IF q.offset > 0 THEN sortedProducts
  ELSE
    LET n                   == Len(sortedProducts)
        newProducts         == SelectSeq(sortedProducts, isNewProduct)
        establishedProducts == SelectSeq(sortedProducts, LAMBDA p : ~isNewProduct(p))
    IN IF season /= NoSeason
       THEN LET newFestiveProducts == SelectSeq(newProducts, LAMBDA p : isFestiveProduct(p, season))
                newRegularProducts == SelectSeq(newProducts, LAMBDA p : ~isFestiveProduct(p, season))
                festiveSlots == season.festiveSlots
                regularSlots == Max(0, 2 - festiveSlots)
            IN InjectFrom(0, n,
                          {1, 3, 5, 7}, Slice(newFestiveProducts, 0, festiveSlots),
                          {2, 6}, Slice(newRegularProducts, 0, regularSlots),
                          establishedProducts
                            \o Slice(newFestiveProducts, festiveSlots, Len(newFestiveProducts))
                            \o Slice(newRegularProducts, regularSlots, Len(newRegularProducts)),
                          0, 0, 0)
       ELSE InjectFrom(0, n, {2, 5}, Slice(newProducts, 0, 2), {}, <<>>,
                       establishedProducts \o Slice(newProducts, 2, Len(newProducts)),
                       0, 0, 0)

\* performSearch of the festive service from the filter on: the response for
\* the candidates prods in the season
performSearchFestive(q, prods, executionTime, season) ==
  LET filtered == SelectSeq(prods, LAMBDA product : matchesFilters(q, product))
      arranged == IF season /= NoSeason
                  THEN applyFestiveInjectionStrategy(filtered, season) ELSE filtered
      sorted   == SortProducts(arranged, q.sortBy)
      injected == injectNewProductsInResults(sorted, q, season)
      page     == Slice(injected, q.offset, q.offset + q.limit)
  IN [performSearch(q, prods, executionTime) EXCEPT
        !.data = [i \in 1..Len(page) |-> SearchResult(page[i])],
        !.totalResults = Len(injected),
        !.pagination.hasNext = (q.offset + q.limit < Len(injected))]

-----------------------------------------------------------------------------
(* SearchService: the relevance score *)

\* a score is counted in ten-thousandths: 1.0 is Unit, 0.4 is 4000
Unit == 100 * 100

\* the numbers of the runtime that the scores can take: a finite number of
\* ten-thousandths, NaN and -Infinity
Num(v) == [kind |-> "number", v |-> v]
NaN == [kind |-> "NaN", v |-> 0]
NegativeInfinity == [kind |-> "-Infinity", v |-> 0]

\* a * w for a finite weight w > 0 in ten-thousandths
Times(a, w) == IF a.kind = "number" THEN Num((a.v * w) \div Unit) ELSE a

\* a + b
Plus(a, b) ==
  IF a.kind = "NaN" \/ b.kind = "NaN" THEN NaN
  ELSE IF a.kind = "-Infinity" \/ b.kind = "-Infinity" THEN NegativeInfinity
  ELSE Num(a.v + b.v)

\* Math.min(a, b)
MathMin(a, b) ==
  IF a.kind = "NaN" \/ b.kind = "NaN" THEN NaN
  ELSE IF a.kind = "-Infinity" \/ b.kind = "-Infinity" THEN NegativeInfinity
  ELSE Num(Min(a.v, b.v))

\* Math.max(a, b)
MathMax(a, b) ==
  IF a.kind = "NaN" \/ b.kind = "NaN" THEN NaN
  ELSE IF a.kind = "-Infinity" THEN b
  ELSE IF b.kind = "-Infinity" THEN a
  ELSE Num(Max(a.v, b.v))

\* Math.log(count + 1) / Math.log(max + 1) for max >= 1: NaN for the logarithm
\* of a negative number, -Infinity for that of 0, 0 for count 0 and 1 for
\* count = max; between these the quotient lies between 0 and 1 and grows with
\* count, and the model takes count / max for it
LogRatio(count, max) ==
  IF count + 1 < 0 THEN NaN
  ELSE IF count + 1 = 0 THEN NegativeInfinity
  ELSE Num((count * Unit) \div max)

\* term.replace(/[^a-z0-9]/gi, "")
StripNonAlnumAnyCase(s) ==
  SelectSeq(s, LAMBDA c : IsLowerAlnum(ToLowerChar(c)))

\* SearchQuery.getSearchTerms
getSearchTerms(query) ==
  LET pieces   == SelectSeq(SplitWhitespace(query), LongerThanOne)
      stripped == [i \in 1..Len(pieces) |-> StripNonAlnumAnyCase(pieces[i])]
  IN SelectSeq(stripped, LongerThanOne)

\* the row of the matrix of levenshteinDistance below the row prev, for the
\* character c of str2, from column j on; left is the entry of column j - 1
RECURSIVE LevenshteinRow(_, _, _, _, _)
LevenshteinRow(prev, c, str1, j, left) ==
  IF j > Len(str1) THEN <<>>
  ELSE LET entry == IF c = str1[j] THEN prev[j]
                    ELSE Min(Min(prev[j], left), prev[j + 1]) + 1
       IN <<entry>> \o LevenshteinRow(prev, c, str1, j + 1, entry)

\* the rows of the matrix from row i on: row[j + 1] is matrix[i - 1][j]
RECURSIVE LevenshteinFrom(_, _, _, _)
LevenshteinFrom(row, str1, str2, i) ==
  IF i > Len(str2) THEN row[Len(str1) + 1]
  ELSE LevenshteinFrom(<<i>> \o LevenshteinRow(row, str2[i], str1, 1, i), str1, str2, i + 1)

\* levenshteinDistance(str1, str2)
levenshteinDistance(str1, str2) ==
  LevenshteinFrom([j \in 1..(Len(str1) + 1) |-> j - 1], str1, str2, 1)

\* calculateFuzzyMatch(term, text): similarity = 1 - distance / maxLength,
\* returned when it is above 0.7
calculateFuzzyMatch(term, text) ==
  IF term = <<>> \/ text = <<>> THEN 0
  ELSE LET distance  == levenshteinDistance(term, text)
           maxLength == Max(Len(term), Len(text))
       IN IF 10 * distance < 3 * maxLength
          THEN Unit - (distance * Unit) \div maxLength ELSE 0

\* the relevance of one term in calculateTextRelevance, capped at 1
TermRelevance(term, title, description, searchableText) ==
  LET inTitle == IF ~Includes(title, term) THEN 0
                 ELSE IF title = term THEN Unit
                 ELSE IF \/ SubSeq(title, 1, Len(term)) = term
                         \/ SubSeq(title, Len(title) - Len(term) + 1, Len(title)) = term
                 THEN 8000 ELSE 6000
      inDescription == IF Includes(description, term) THEN 4000 ELSE 0
      inText  == IF Includes(searchableText, term) THEN 2000 ELSE 0
      fuzzy   == (calculateFuzzyMatch(term, title) * 3) \div 10
  IN Min(Unit, inTitle + inDescription + inText + fuzzy)

RECURSIVE SumOf(_)
SumOf(numbers) == IF numbers = <<>> THEN 0 ELSE Head(numbers) + SumOf(Tail(numbers))

\* calculateTextRelevance(product, searchQuery)
calculateTextRelevance(product, q) ==
  IF ~Truthy(q.query) THEN 5000
  ELSE LET queryTerms == getSearchTerms(q.query)
       IN IF queryTerms = <<>> THEN 0
          ELSE SumOf([i \in 1..Len(queryTerms) |->
                        TermRelevance(queryTerms[i], toLowerCase(product.title),
                                      toLowerCase(OrEmpty(product.description)),
                                      toLowerCase(product.searchableText))])
               \div Len(queryTerms)

\* calculateQualityScore(product): the rating, in tenths, over 5.0 weighs 0.6;
\* the products carry no analytics, so returnRate is the default 0.1
calculateQualityScore(product) ==
  LET ratingScore == product.rating * 200
      returnScore == Unit - 1000
  IN (ratingScore * 6) \div 10 + (returnScore * 4) \div 10

\* getMaxReviews()
getMaxReviews(prods) ==
  LET counts == {prods[id].ratingCount : id \in DOMAIN prods} \cup {0}
      max    == CHOOSE c \in counts : \A d \in counts : d <= c
  IN IF max = 0 THEN 1000 ELSE max

\* calculatePopularityScore(product): without analytics unitsSold is 0 and
\* getMaxUnitsSold() is its fallback 10000, so salesScore is log(1) / log(10001)
calculatePopularityScore(product, prods) ==
  LET salesScore  == LogRatio(0, 10000)
      reviewScore == LogRatio(product.ratingCount, getMaxReviews(prods))
  IN Plus(Times(salesScore, 7000), Times(reviewScore, 3000))

\* calculateBusinessScore(product): without mrp the discount is 0, without
\* analytics profitMargin is the default 0.2, which scores 0.2 / 0.5
calculateBusinessScore(product) ==
  LET stockScore  == IF product.stock > 100 THEN Unit
                     ELSE IF product.stock > 10 THEN 8000
                     ELSE IF product.stock > 0 THEN 5000 ELSE 0
      priceScore  == 0
      profitScore == 4000
  IN (stockScore * 5) \div 10 + (priceScore * 3) \div 10 + (profitScore * 2) \div 10

popularBrands ==
  { <<"a","p","p","l","e">>, <<"s","a","m","s","u","n","g">>, <<"o","n","e","p","l","u","s">>, <<"x","i","a","o","m","i">>, <<"d","e","l","l">>, <<"h","p">> }

\* applyBoostFactors(baseScore, product, searchQuery), for products without
\* analytics: neither trending nor on sale, profitMargin 0
applyBoostFactors(baseScore, product) ==
  LET lowStock == IF product.stock > 0 /\ product.stock <= 10
                  THEN Times(baseScore, 10500) ELSE baseScore
      brand    == IF product.brand /= Undefined /\ toLowerCase(product.brand) \in popularBrands
                  THEN Times(lowStock, 10500) ELSE lowStock
  IN IF product.price >= 5000 /\ product.price <= 30000
     THEN Times(brand, 11000) ELSE brand

\* calculateRelevanceScore(product, searchQuery) over the catalog prods
calculateRelevanceScore(product, q, prods) ==
  LET textScore       == Num(calculateTextRelevance(product, q))
      qualityScore    == Num(calculateQualityScore(product))
      popularityScore == calculatePopularityScore(product, prods)
      businessScore   == Num(calculateBusinessScore(product))
      score == Plus(Plus(Plus(Times(textScore, 4000), Times(qualityScore, 2500)),
                         Times(popularityScore, 2000)),
                    Times(businessScore, 1500))
  IN MathMax(Num(0), MathMin(Num(Unit), applyBoostFactors(score, product)))

-----------------------------------------------------------------------------
(* Inputs of the repository operations *)

sTv    == <<"T","v">>
sHiFi  == <<"H","i","-","F","i"," ","a">>
sRadio == <<"R","a","d","i","o">>
sBlank == <<" ">>
sVideo == <<"V","i","d","e","o">>
sAudio == <<"A","u","d","i","o">>
sSony  == <<"S","o","n","y">>
sOled  == <<"O","l","e","d">>
sRed   == <<"R","e","d">>

\* raw products handed to add: valid ones without and with a productId, and
\* one for each way validation fails
AddInputs ==
  { [title |-> sTv, category |-> sVideo, brand |-> sSony, price |-> 500,
     rating |-> 45, stock |-> 5, tags |-> <<sOled>>],
    [productId |-> 1, title |-> sHiFi, category |-> sAudio, price |-> 1000, stock |-> 60],
    [title |-> sBlank, price |-> 500],
    [title |-> <<>>, price |-> 500],
    [category |-> sAudio, price |-> 500],
    [title |-> sTv, stock |-> 5],
    [title |-> sTv, price |-> 0],
    [title |-> sTv, price |-> 500, rating |-> 51],
    [title |-> sTv, price |-> 500, rating |-> 0 - 1],
    [title |-> sTv, price |-> 500, stock |-> 0 - 1] }

\* partial products handed to update: a changed title, category, price and
\* stock, and a price that fails validation
UpdateInputs ==
  { [title |-> sRadio, category |-> sAudio, price |-> 1000, stock |-> 11],
    [price |-> 0] }

\* the raw products of a bulk load: three valid products without ids, which
\* differ in category, brand, price, rating and stock and are not in the order
\* of their prices
Shelf ==
  << [title |-> <<"C","h","e","a","p"," ","T","v">>, category |-> sVideo, brand |-> sSony,
      price |-> 500, rating |-> 45, stock |-> 5, tags |-> <<sOled>>],
     [title |-> sHiFi, category |-> sAudio, brand |-> <<"B","o","s","e">>,
      price |-> 1000, rating |-> 40, stock |-> 60],
     [title |-> sRadio, category |-> sAudio, brand |-> sSony,
      price |-> 200, rating |-> 30, stock |-> 0] >>

\* raw products of which the first and the third fail validation: a price of
\* zero and no title
Mixed ==
  << [title |-> sRadio, category |-> sAudio, price |-> 0, stock |-> 1],
     [title |-> <<"C","h","e","a","p"," ","T","v">>, category |-> sVideo, brand |-> sSony,
      price |-> 500, rating |-> 45, stock |-> 5],
     [category |-> sAudio, price |-> 100, stock |-> 1],
     [title |-> sHiFi, category |-> sAudio, brand |-> <<"B","o","s","e">>,
      price |-> 1000, rating |-> 40, stock |-> 60] >>

\* sequences of raw products handed to bulkLoad
BulkInputs == { Shelf, Mixed }

\* metadata maps handed to updateMetadata
MetadataInputs ==
  { << <<"color", sRed>> >> }

\* ids handed to update and updateMetadata: the first id and one that is never in use
RequestIds == {1, MaxId + 1}

-----------------------------------------------------------------------------
(* InMemoryProductRepository: the operations *)

NoError == [name |-> "none", message |-> "none"]

\* throw new Error(message)
PlainError(message) == [name |-> "Error", message |-> message]

\* no search has completed since the catalog last changed
NoneServed == [k \in {} |-> 0]

\* a call that changed the primary map or an index starts a new period of
\* completed searches
NoteCatalogCall ==
  served' = IF <<products, indexVars>>' /= <<products, indexVars>>
            THEN NoneServed ELSE served

\* a search that awaits repository.search holds the Product objects it was
\* handed: Product.updateMetadata changes such an object in place
RefreshCandidates(slots, product, updated) ==
  [s \in DOMAIN slots |->
     IF slots[s].phase = "matching"
     THEN [slots[s] EXCEPT !.products =
             [i \in 1..Len(@) |-> IF @[i] = product THEN updated ELSE @[i]]]
     ELSE slots[s]]

\* productData.productId || this.nextId++
SuppliesId(productData) ==
  "productId" \in DOMAIN productData /\ productData.productId /= 0

\* add(productData)
add(productData) ==
  LET id      == IF SuppliesId(productData) THEN productData.productId ELSE nextId
      data    == Spread(productData, [productId |-> id])
      err     == ProductError(data)
      product == Product(data)
      ix      == updateIndexes(Indexes, product)
  IN /\ SuppliesId(productData) \/ nextId <= MaxId
     /\ nextId' = IF SuppliesId(productData) THEN nextId ELSE nextId + 1
     /\ IF err /= "none"
        THEN /\ UNCHANGED <<products, indexVars, stats>>
             /\ last' = [op |-> "add", id |-> id, error |-> PlainError(err), changes |-> {}]
        ELSE /\ products' = MapSet(products, id, product)
             /\ SetIndexes(ix)
             /\ stats' = updateStats(products', ix)
             /\ last' = [op |-> "add", id |-> id, error |-> NoError, changes |-> {}]
     /\ NoteCatalogCall
     /\ UNCHANGED dataService
     /\ UNCHANGED <<svcVars, inflight>>

\* update(productId, updateData)
update(productId, updateData) ==
  IF productId \notin DOMAIN products
  THEN /\ last' = [op |-> "update", id |-> productId,
                   error |-> PlainError("Product with ID not found"),
                   changes |-> DOMAIN updateData]
       /\ UNCHANGED <<repoVars, svcVars, inflight, served, dataService>>
  ELSE LET existingProduct == products[productId]
           removed == removeFromIndexes(Indexes, existingProduct)
           data    == Spread(Spread(toJSON(existingProduct), updateData),
                             [productId |-> productId])
           err     == ProductError(data)
           updatedProduct == Product(data)
           ix      == updateIndexes(removed, updatedProduct)
       IN /\ IF err /= "none"
             THEN /\ SetIndexes(removed)
                  /\ UNCHANGED <<products, stats>>
                  /\ last' = [op |-> "update", id |-> productId,
                              error |-> PlainError(err), changes |-> DOMAIN updateData]
             ELSE /\ products' = MapSet(products, productId, updatedProduct)
                  /\ SetIndexes(ix)
                  /\ stats' = updateStats(products', ix)
                  /\ last' = [op |-> "update", id |-> productId,
                              error |-> NoError, changes |-> DOMAIN updateData]
          /\ NoteCatalogCall
          /\ UNCHANGED dataService
          /\ UNCHANGED <<nextId, svcVars, inflight>>

\* ProductController.deleteProduct: repository.update(productId, { isActive: false })
deleteProduct(productId) == update(productId, [isActive |-> FALSE])

\* updateMetadata(productId, metadata)
updateMetadata(productId, metadata) ==
  IF productId \notin DOMAIN products
  THEN /\ last' = [op |-> "updateMetadata", id |-> productId,
                   error |-> PlainError("Product with ID not found"), changes |-> {}]
       /\ UNCHANGED <<repoVars, svcVars, inflight, served, dataService>>
  ELSE LET product == products[productId]
           updated == ProductUpdateMetadata(product, metadata)
       IN /\ searchIndex' = addToSearchIndex(removeFromSearchIndex(searchIndex, product),
                                             updated)
          /\ products' = [products EXCEPT ![productId] = updated]
          /\ stats' = updateStats(products', [Indexes EXCEPT !.search = searchIndex'])
          /\ last' = [op |-> "updateMetadata", id |-> productId, error |-> NoError,
                      changes |-> {}]
          /\ inflight' = RefreshCandidates(inflight, product, updated)
          /\ UNCHANGED <<nextId, categoryIndex, brandIndex, priceRangeIndex,
                         ratingBucketIndex, stockStatusIndex, svcVars>>
          /\ NoteCatalogCall
          /\ UNCHANGED dataService

\* clear()
clear ==
  /\ products' = EmptyMap
  /\ searchIndex' = EmptyMap
  /\ categoryIndex' = EmptyMap
  /\ brandIndex' = EmptyMap
  /\ priceRangeIndex' = EmptyMap
  /\ ratingBucketIndex' = EmptyMap
  /\ stockStatusIndex' = EmptyMap
  /\ nextId' = 1
  /\ stats' = [totalProducts |-> 0, totalIndexEntries |-> 0]
  /\ last' = [op |-> "clear", id |-> 0, error |-> NoError, changes |-> {}]
  /\ NoteCatalogCall
  /\ UNCHANGED dataService
  /\ UNCHANGED <<svcVars, inflight>>

\* a loop that leaves an item that fails out of both counts
LoadOneUncounted(repo, productData) ==
  LET id   == IF SuppliesId(productData) THEN productData.productId ELSE repo.nextId
      data == Spread(productData, [productId |-> id])
      next == IF SuppliesId(productData) THEN repo.nextId ELSE repo.nextId + 1
  IN IF ProductError(data) /= "none"
     THEN [repo EXCEPT !.nextId = next]
     ELSE LET product == Product(data)
              ix      == updateIndexes(repo.ix, product)
              prods   == MapSet(repo.products, id, product)
          IN [products |-> prods, nextId |-> next, ix |-> ix,
              stats |-> updateStats(prods, ix),
              successCount |-> repo.successCount + 1,
              errorCount |-> repo.errorCount]

\* the body of bulkLoad's loop on the repository state repo with the counts so
\* far: try { await this.add(productData); successCount++ } catch { errorCount++ }
LoadOne(repo, productData) ==
  LET id   == IF SuppliesId(productData) THEN productData.productId ELSE repo.nextId
      data == Spread(productData, [productId |-> id])
      next == IF SuppliesId(productData) THEN repo.nextId ELSE repo.nextId + 1
  IN IF ProductError(data) /= "none"
     THEN [repo EXCEPT !.nextId = next, !.errorCount = @ + 1]
     ELSE LET product == Product(data)
              ix      == updateIndexes(repo.ix, product)
              prods   == MapSet(repo.products, id, product)
          IN [products |-> prods, nextId |-> next, ix |-> ix,
              stats |-> updateStats(prods, ix),
              successCount |-> repo.successCount + 1,
              errorCount |-> repo.errorCount]

\* for (const productData of products) ...
RECURSIVE LoadAll(_, _)
LoadAll(repo, rawProducts) ==
  IF rawProducts = <<>> THEN repo
  ELSE LoadAll(LoadOne(repo, Head(rawProducts)), Tail(rawProducts))

\* bulkLoad(products). Each add it awaits has no await of its own, so the loop
\* runs on in microtasks: no request that arrives meanwhile is served between
\* two of its items. What becomes of dataService is the caller's to say
bulkLoad(rawProducts) ==
  LET loaded == LoadAll([products |-> products, nextId |-> nextId, ix |-> Indexes,
                         stats |-> stats, successCount |-> 0, errorCount |-> 0],
                        rawProducts)
  IN /\ products' = loaded.products
     /\ nextId' = loaded.nextId
     /\ SetIndexes(loaded.ix)
     /\ stats' = loaded.stats
     /\ last' = [op |-> "bulkLoad", id |-> 0, error |-> NoError, changes |-> {},
                 rawProducts |-> rawProducts,
                 successCount |-> loaded.successCount,
                 errorCount |-> loaded.errorCount]
     /\ NoteCatalogCall
     /\ UNCHANGED <<svcVars, inflight>>

-----------------------------------------------------------------------------
(* SearchService: search *)

sTvPadded == <<" ","T","V"," ">>

\* parameter objects handed to search: a text query, the same text in another
\* spelling, no text, a sort order with a category, a stock filter on the
\* second page, and one that the SearchQuery constructor refuses
SearchInputs ==
  { [query |-> sTv],
    [query |-> sTvPadded, limit |-> 20],
    [sortBy |-> "relevance"],
    [sortBy |-> "price_high", category |-> sVideo],
    [inStock |-> JsStringTrue, offset |-> 1],
    [sortBy |-> "cheapest"] }

\* parameter objects at and beyond the limits of the parameters: limit above
\* 100, below 1 and zero, a negative offset, minPrice above maxPrice, minRating
\* above 5 and below 0, a sort order that does not exist, and a limit of 100
ParameterInputs ==
  { [limit |-> 200],
    [limit |-> 0 - 5],
    [limit |-> 0],
    [offset |-> 0 - 1],
    [minPrice |-> 1000, maxPrice |-> 500],
    [minRating |-> 51],
    [minRating |-> 0 - 1],
    [sortBy |-> "cheapest"],
    [limit |-> 100] }

\* parameter objects handed to search over a catalog of three products: pages
\* of one and two items up to and past the end, a limit below 1, which the
\* SearchQuery constructor lets pass, the two orders of price on first and
\* later pages, without and with a text query, text queries of one to three
\* tokens with each of the filters, and the filters without a text query, the
\* stock filter as the string and as the boolean
ShelfInputs ==
  { [limit |-> 1],
    [limit |-> 1, offset |-> 1],
    [limit |-> 2, offset |-> 2],
    [offset |-> 3],
    [limit |-> 0 - 1],
    [sortBy |-> "price_low"],
    [sortBy |-> "price_high"],
    [sortBy |-> "price_low", limit |-> 2, offset |-> 1],
    [sortBy |-> "price_high", limit |-> 2],
    [query |-> sAudio, sortBy |-> "price_high"],
    [query |-> <<"c","h","e","a","p"," ","r","a","d","i","o">>],
    [query |-> sAudio, category |-> <<"a","u","d","i","o">>, priceRange |-> "0-1000"],
    [query |-> sSony, brand |-> <<"S","O","N","Y">>, inStock |-> JsStringTrue],
    [query |-> <<"s","o","n","y"," ","b","o","s","e">>, ratingRange |-> "4.0-4.5"],
    [query |-> <<"c","h","e","a","p"," ","b","o","s","e"," ","r","a","d","i","o">>,
     inStock |-> JsStringTrue],
    [inStock |-> JsBooleanTrue],
    [query |-> sSony, inStock |-> JsBooleanTrue],
    [priceRange |-> "1000-5000"],
    [ratingRange |-> "4.5+"],
    [category |-> <<"A","u","d","i","o">>, minPrice |-> 300, maxPrice |-> 1000,
     minRating |-> 35] }

\* text queries with a regional word for cheap as a whole word: alone, in
\* capitals before another word, with a category, and joined to the next word
\* by a hyphen
CheapSynonymInputs ==
  { [query |-> <<"s","a","s","t","a">>],
    [query |-> <<"S","A","S","T","E","Y"," ","t","v">>],
    [query |-> <<"s","a","s","t","e">>, category |-> sAudio],
    [query |-> <<"s","a","s","t","a","-","r","a","d","i","o">>] }

\* and text queries without one: the regional word inside a longer word, and
\* the canonical word itself
RegionalInputs ==
  CheapSynonymInputs \cup { [query |-> <<"s","a","s","t","a","a">>],
                            [query |-> <<"c","h","e","a","p">>] }

\* the update that gives a product a title with the word cheap
RetitleInputs == { [title |-> <<"C","h","e","a","p"," ","R","a","d","i","o">>] }

\* new SearchQuery(queryParams) and generateCacheKey of it, for each of the
\* parameter objects: what the constructor throws, the query and its key
Constructed ==
  [queryParams \in SearchInputs \cup ParameterInputs \cup ShelfInputs \cup RegionalInputs |->
     IF SearchQueryError(queryParams) /= "none"
     THEN [error |-> SearchQueryError(queryParams)]
     ELSE [error |-> "none", searchQuery |-> SearchQuery(queryParams),
           cacheKey |-> generateCacheKey(SearchQuery(queryParams))]]

\* a slot that holds no search
Idle == [phase |-> "idle"]

\* throw of a TypeError by the runtime
TypeError(message) == [name |-> "TypeError", message |-> message]

\* what the step of a search leaves in `last`: the step taken, the key and the
\* query, the response or the error, the entries the step took out of the
\* cache (expired at the lookup, or evicted by addToCache), and whether a
\* search of the key had completed since the catalog last changed
SearchStep(slot, step, q, key, error, response, removed) ==
  [op |-> "search", id |-> slot, error |-> error, changes |-> {},
   step |-> step, q |-> q, key |-> key, response |-> response, removed |-> removed,
   again |-> key \in DOMAIN served]

\* a search has completed with a response: the response, the time, and the
\* insertion timestamp of the cache entry it was read from or written to
Serve(key, response, timestamp) ==
  [k \in (DOMAIN served) \cup {key} |->
     IF k = key THEN [response |-> response, at |-> now, timestamp |-> timestamp]
     ELSE served[k]]

\* search(queryParams) up to its first await, or to its return or throw when
\* it has none
search(slot, queryParams) ==
  IF Constructed[queryParams].error /= "none"
  THEN /\ last' = SearchStep(slot, "rejected", <<>>, <<>>,
                             PlainError(Constructed[queryParams].error), <<>>, <<>>)
       /\ UNCHANGED <<repoVars, svcVars, inflight, served, dataService>>
  ELSE
    LET searchQuery == Constructed[queryParams].searchQuery
        cacheKey    == Constructed[queryParams].cacheKey
        cached      == getFromCache(searchCache, cacheKey, now)
    IN /\ searchCache' = cached.cache
       /\ IF cached.found
          THEN LET entry == CacheGet(searchCache, cacheKey)
               IN /\ cacheStats' = CountHit(cacheStats)
                  /\ served' = Serve(cacheKey, entry.data, entry.timestamp)
                  /\ UNCHANGED dataService
                  /\ last' = SearchStep(slot, "hit", searchQuery, cacheKey, NoError,
                                        entry.data, <<>>)
                  /\ UNCHANGED inflight
          ELSE /\ cacheStats' = CountMiss(cacheStats)
               /\ UNCHANGED <<served, dataService>>
               /\ LET expired == IF CacheHas(searchCache, cacheKey)
                                 THEN <<CacheGet(searchCache, cacheKey)>> ELSE <<>>
                  IN
                  IF Truthy(searchQuery.query)
                  THEN /\ inflight' =
                            [inflight EXCEPT ![slot] =
                               [phase |-> "matching", q |-> searchQuery,
                                key |-> cacheKey, startTime |-> now,
                                products |->
                                  RepositorySearch(products, Indexes, searchQuery.query,
                                                   searchQuery)]]
                       /\ last' = SearchStep(slot, "miss", searchQuery, cacheKey,
                                             NoError, <<>>, expired)
                  ELSE IF FilterThrows(searchQuery, AllProducts(products))
                  THEN /\ UNCHANGED inflight
                       /\ last' = SearchStep(slot, "failed", searchQuery, cacheKey,
                                             TypeError("toLowerCase of undefined"),
                                             <<>>, expired)
                  ELSE /\ inflight' =
                            [inflight EXCEPT ![slot] =
                               [phase |-> "caching", q |-> searchQuery,
                                key |-> cacheKey,
                                results |-> performSearch(searchQuery,
                                                          AllProducts(products), 0)]]
                       /\ last' = SearchStep(slot, "miss", searchQuery, cacheKey,
                                             NoError, <<>>, expired)
       /\ UNCHANGED <<repoVars, now>>

\* performSearch after `await this.productRepository.search(...)`
afterRepositorySearch(slot) ==
  LET run == inflight[slot]
  IN /\ run.phase = "matching"
     /\ IF FilterThrows(run.q, run.products)
        THEN /\ inflight' = [inflight EXCEPT ![slot] = Idle]
             /\ last' = SearchStep(slot, "failed", run.q, run.key,
                                   TypeError("toLowerCase of undefined"), <<>>, <<>>)
        ELSE /\ inflight' =
                  [inflight EXCEPT ![slot] =
                     [phase |-> "caching", q |-> run.q, key |-> run.key,
                      results |-> performSearch(run.q, run.products,
                                                now - run.startTime)]]
             /\ last' = SearchStep(slot, "computed", run.q, run.key, NoError, <<>>, <<>>)
     /\ UNCHANGED <<repoVars, svcVars, served, dataService>>

\* search after `await this.performSearch(searchQuery)`
afterPerformSearch(slot) ==
  LET run == inflight[slot]
      put == addToCache(searchCache, run.key, run.results, now)
  IN /\ run.phase = "caching"
     /\ searchCache' = put.cache
     /\ cacheStats' = CountEvictions(cacheStats, Len(put.evicted))
     /\ inflight' = [inflight EXCEPT ![slot] = Idle]
     /\ served' = Serve(run.key, run.results, now)
     /\ UNCHANGED dataService
     /\ last' = SearchStep(slot, "stored", run.q, run.key, NoError, run.results,
                           put.evicted)
     /\ UNCHANGED <<repoVars, now>>

\* Date.now() moves on
tick ==
  /\ now + TickStep <= MaxNow
  /\ now' = now + TickStep
  /\ last' = [op |-> "tick", id |-> 0, error |-> NoError, changes |-> {}]
  /\ UNCHANGED <<repoVars, searchCache, cacheStats, inflight, served, dataService>>

-----------------------------------------------------------------------------
(* SearchService with the festive season strategy: search *)

\* search(queryParams) of the festive service up to its first await, or to its
\* return or throw when it has none; season is what getCurrentFestiveSeason()
\* finds when performSearch runs
searchFestive(slot, queryParams, season) ==
  IF Constructed[queryParams].error /= "none"
  THEN search(slot, queryParams)
  ELSE
    LET searchQuery == Constructed[queryParams].searchQuery
        cacheKey    == Constructed[queryParams].cacheKey
        cached      == getFromCache(searchCache, cacheKey, now)
        candidates  == AllProducts(products)
    IN IF cached.found \/ Truthy(searchQuery.query) \/ FilterThrows(searchQuery, candidates)
       THEN search(slot, queryParams)
       ELSE /\ searchCache' = cached.cache
            /\ cacheStats' = CountMiss(cacheStats)
            /\ inflight' =
                 [inflight EXCEPT ![slot] =
                    [phase |-> "caching", q |-> searchQuery, key |-> cacheKey,
                     results |-> performSearchFestive(searchQuery, candidates, 0, season)]]
            /\ last' = SearchStep(slot, "miss", searchQuery, cacheKey, NoError, <<>>,
                                  IF CacheHas(searchCache, cacheKey)
                                  THEN <<CacheGet(searchCache, cacheKey)>> ELSE <<>>)
            /\ UNCHANGED <<repoVars, now, served, dataService>>

\* performSearch of the festive service after `await this.productRepository.search(...)`
afterRepositorySearchFestive(slot, season) ==
  LET run == inflight[slot]
  IN /\ run.phase = "matching"
     /\ IF FilterThrows(run.q, run.products)
        THEN afterRepositorySearch(slot)
        ELSE /\ inflight' =
                  [inflight EXCEPT ![slot] =
                     [phase |-> "caching", q |-> run.q, key |-> run.key,
                      results |-> performSearchFestive(run.q, run.products,
                                                       now - run.startTime, season)]]
             /\ last' = SearchStep(slot, "computed", run.q, run.key, NoError, <<>>, <<>>)
             /\ UNCHANGED <<repoVars, svcVars, served, dataService>>

-----------------------------------------------------------------------------
(* SearchService: performSearch with the relevance scores in the response *)

\* (b.relevanceScore || 0) - (a.relevanceScore || 0) < 0: a goes before b
ScoreOrZero(product) ==
  IF product.relevanceScore.kind = "number" THEN product.relevanceScore.v ELSE 0

RECURSIVE InsertByScore(_, _)
InsertByScore(sorted, x) ==
  IF sorted = <<>> THEN <<x>>
  ELSE IF ScoreOrZero(Head(sorted)) - ScoreOrZero(x) < 0 THEN <<x>> \o sorted
  ELSE <<Head(sorted)>> \o InsertByScore(Tail(sorted), x)

RECURSIVE SortByScore(_)
SortByScore(prods) ==
  IF prods = <<>> THEN <<>>
  ELSE InsertByScore(SortByScore(SubSeq(prods, 1, Len(prods) - 1)), prods[Len(prods)])

\* Math.round((product.relevanceScore || 0) * 100) / 100
RoundedScore(product) == ((ScoreOrZero(product) + 50) \div 100) * 100

\* performSearch from the filter on, for the candidates prods: the scores are
\* calculated against the catalog that the repository holds when the filter
\* runs (getMaxReviews reads this.productRepository.products)
performSearchScored(q, prods, catalog, executionTime) ==
  LET filtered == SelectSeq(prods, LAMBDA product : matchesFilters(q, product))
      scored   == [i \in 1..Len(filtered) |->
                     Spread(filtered[i],
                            [relevanceScore |->
                               calculateRelevanceScore(filtered[i], q, catalog)])]
      sorted   == IF q.sortBy = "relevance" THEN SortByScore(scored)
                  ELSE SortProducts(scored, q.sortBy)
      page     == Slice(sorted, q.offset, q.offset + q.limit)
  IN [performSearch(q, prods, executionTime) EXCEPT
        !.data = [i \in 1..Len(page) |->
                    Spread(SearchResult(page[i]),
                           [relevanceScore |-> RoundedScore(page[i])])]]

\* search(queryParams) up to its first await; a search with a text leaves at
\* its await, with its candidates, the catalog it has read them from
searchScored(slot, queryParams) ==
  LET searchQuery == Constructed[queryParams].searchQuery
      cacheKey    == Constructed[queryParams].cacheKey
      cached      == getFromCache(searchCache, cacheKey, now)
  IN /\ Constructed[queryParams].error = "none"
     /\ Truthy(searchQuery.query)
     /\ ~cached.found
     /\ searchCache' = cached.cache
     /\ cacheStats' = CountMiss(cacheStats)
     /\ inflight' =
          [inflight EXCEPT ![slot] =
             [phase |-> "matching", q |-> searchQuery, key |-> cacheKey,
              startTime |-> now, catalog |-> products,
              products |-> RepositorySearch(products, Indexes, searchQuery.query,
                                            searchQuery)]]
     /\ last' = SearchStep(slot, "miss", searchQuery, cacheKey, NoError, <<>>,
                           IF CacheHas(searchCache, cacheKey)
                           THEN <<CacheGet(searchCache, cacheKey)>> ELSE <<>>)
     /\ UNCHANGED <<repoVars, now, served, dataService>>

\* performSearch after `await this.productRepository.search(...)`
afterRepositorySearchScored(slot) ==
  LET run == inflight[slot]
  IN /\ run.phase = "matching"
     /\ ~FilterThrows(run.q, run.products)
     /\ inflight' =
          [inflight EXCEPT ![slot] =
             [phase |-> "caching", q |-> run.q, key |-> run.key,
              results |-> performSearchScored(run.q, run.products, products,
                                              now - run.startTime)]]
     /\ last' = SearchStep(slot, "computed", run.q, run.key, NoError, <<>>, <<>>)
     /\ UNCHANGED <<repoVars, svcVars, served, dataService>>

-----------------------------------------------------------------------------
(* The catalog store on its own *)

Init ==
  /\ products = EmptyMap
  /\ nextId = 1
  /\ searchIndex = EmptyMap
  /\ categoryIndex = EmptyMap
  /\ brandIndex = EmptyMap
  /\ priceRangeIndex = EmptyMap
  /\ ratingBucketIndex = EmptyMap
  /\ stockStatusIndex = EmptyMap
  /\ stats = [totalProducts |-> 0, totalIndexEntries |-> 0]
  /\ searchCache = <<>>
  /\ cacheStats = [hits |-> 0, misses |-> 0, evictions |-> 0]
  /\ now = 0
  /\ inflight = [slot \in 1..MaxInflight |-> Idle]
  /\ served = NoneServed
  /\ dataService = [productRepository |-> 0, searchService |-> 0,
                    initialized |-> FALSE, calls |-> <<>>, loads |-> 0]
  /\ last = [op |-> "init", id |-> 0, error |-> NoError, changes |-> {}]

Add == \E productData \in AddInputs : add(productData)

Update == \E productId \in RequestIds, updateData \in UpdateInputs :
            update(productId, updateData)

UpdateMetadata == \E productId \in RequestIds, metadata \in MetadataInputs :
                    updateMetadata(productId, metadata)

Clear == clear

Delete == \E productId \in RequestIds : deleteProduct(productId)

Next == Add \/ Update \/ UpdateMetadata \/ Clear \/ Delete

Spec == Init /\ [][Next]_vars

-----------------------------------------------------------------------------
(* The search service over a catalog that grows *)

\* the slot a new search takes
FreeSlot(slot) ==
  /\ inflight[slot] = Idle
  /\ \A other \in 1..(slot - 1) : inflight[other] /= Idle

\* products added while searches run
CatalogInputs ==
  { [title |-> sTv, category |-> sVideo, brand |-> sSony, price |-> 500,
     rating |-> 45, stock |-> 5, tags |-> <<sOled>>] }

AddProduct == \E productData \in CatalogInputs :
                /\ Cardinality(DOMAIN products) < MaxCatalog
                /\ add(productData)

\* a caller that awaits each search before it starts the next
SearchAlone == \E queryParams \in SearchInputs :
                 /\ \A slot \in 1..MaxInflight : inflight[slot] = Idle
                 /\ cacheStats.hits + cacheStats.misses < MaxRepeats
                 /\ search(1, queryParams)

SearchMatched == \E slot \in 1..MaxInflight : afterRepositorySearch(slot)

SearchStored == \E slot \in 1..MaxInflight : afterPerformSearch(slot)

Tick == tick

NextSearch == AddProduct \/ SearchAlone \/ SearchMatched \/ SearchStored \/ Tick

SpecSearch == Init /\ [][NextSearch]_vars

-----------------------------------------------------------------------------
(* The result cache under searches that overlap *)

\* callers that start searches while others are between their awaits
SearchStart == \E slot \in 1..MaxInflight, queryParams \in SearchInputs :
                 /\ FreeSlot(slot)
                 /\ cacheStats.hits + cacheStats.misses < MaxSearches
                 /\ search(slot, queryParams)

NextCache == SearchStart \/ SearchMatched \/ SearchStored \/ Tick

SpecCache == Init /\ [][NextCache]_vars


-----------------------------------------------------------------------------
(* The search service over a catalog with soft deletes *)

NextDeleted == AddProduct \/ Delete \/ SearchAlone \/ SearchMatched \/ SearchStored

SpecDeleted == Init /\ [][NextDeleted]_vars

-----------------------------------------------------------------------------
(* The search service under parameters at and beyond their limits *)

SearchParameters == \E queryParams \in ParameterInputs :
                      /\ \A slot \in 1..MaxInflight : inflight[slot] = Idle
                      /\ cacheStats.hits + cacheStats.misses < MaxRepeats
                      /\ search(1, queryParams)

NextParameters == AddProduct \/ SearchParameters \/ SearchStored

SpecParameters == Init /\ [][NextParameters]_vars

-----------------------------------------------------------------------------
(* The search service over a catalog that a bulk load has filled *)

\* the initial load of the catalog, before requests are served
BulkLoad == \E rawProducts \in BulkInputs :
              /\ products = EmptyMap /\ nextId = 1
              /\ \A slot \in 1..MaxInflight : inflight[slot] = Idle
              /\ bulkLoad(rawProducts)
              /\ UNCHANGED dataService

SearchShelf == \E queryParams \in ShelfInputs :
                 /\ \A slot \in 1..MaxInflight : inflight[slot] = Idle
                 /\ cacheStats.hits + cacheStats.misses < MaxShelfSearches
                 /\ search(1, queryParams)

NextShelf == BulkLoad \/ SearchShelf \/ SearchMatched \/ SearchStored

SpecShelf == Init /\ [][NextShelf]_vars

-----------------------------------------------------------------------------
(* Requests that interleave at their await points *)

\* bulkLoad's loop, one item at a time: each `await this.add(productData)` is an
\* await point, after which the continuations of other requests may run. The
\* items carry no productId, so item i draws the id i
LoadNext == /\ nextId <= Len(Mixed)
            /\ add(Mixed[nextId])

UpdateLoaded == \E productId \in DOMAIN products, updateData \in UpdateInputs :
                  update(productId, updateData)

UpdateMetadataLoaded == \E productId \in DOMAIN products, metadata \in MetadataInputs :
                          updateMetadata(productId, metadata)

\* a search that starts while others, and the load, are between their awaits
SearchInterleaved == \E slot \in 1..MaxInflight, queryParams \in SearchInputs :
                       /\ FreeSlot(slot)
                       /\ cacheStats.hits + cacheStats.misses < MaxShelfSearches
                       /\ search(slot, queryParams)

NextInterleaved ==
  LoadNext \/ UpdateLoaded \/ UpdateMetadataLoaded \/ SearchInterleaved
    \/ SearchMatched \/ SearchStored

SpecInterleaved == Init /\ [][NextInterleaved]_vars

-----------------------------------------------------------------------------
(* Searches in regional words over a catalog whose titles change *)

Retitle == \E productId \in DOMAIN products, updateData \in RetitleInputs :
             /\ \A slot \in 1..MaxInflight : inflight[slot] = Idle
             /\ update(productId, updateData)

SearchRegional == \E queryParams \in RegionalInputs :
                    /\ \A slot \in 1..MaxInflight : inflight[slot] = Idle
                    /\ cacheStats.hits + cacheStats.misses < MaxShelfSearches
                    /\ search(1, queryParams)

NextRegional == BulkLoad \/ Retitle \/ SearchRegional \/ SearchMatched \/ SearchStored

SpecRegional == Init /\ [][NextRegional]_vars

-----------------------------------------------------------------------------
(* The festive search service over a catalog that a bulk load has filled *)

\* searches in an order of price: the comparators the model carries
SearchFestive == \E queryParams \in ShelfInputs, season \in Seasons :
                   /\ "sortBy" \in DOMAIN queryParams
                   /\ \A slot \in 1..MaxInflight : inflight[slot] = Idle
                   /\ cacheStats.hits + cacheStats.misses < MaxShelfSearches
                   /\ searchFestive(1, queryParams, season)

FestiveMatched == \E slot \in 1..MaxInflight, season \in Seasons :
                    afterRepositorySearchFestive(slot, season)

NextFestive == BulkLoad \/ SearchFestive \/ FestiveMatched \/ SearchStored

SpecFestive == Init /\ [][NextFestive]_vars

-----------------------------------------------------------------------------
(* The relevance score of the products of a catalog *)

\* raw products to score: one with a popular brand, a price in the preferred
\* range, low stock and the most reviews, one without any of these, and two
\* whose ratingCount is below zero, which Product.validate does not check
ScoreProducts ==
  { [title |-> sTv, category |-> sVideo, brand |-> <<"D","e","l","l">>, price |-> 6000,
     rating |-> 50, ratingCount |-> 9, stock |-> 5],
    [title |-> sHiFi, category |-> sAudio, price |-> 1000, stock |-> 60],
    [title |-> sTv, price |-> 500, ratingCount |-> 0 - 1],
    [title |-> sTv, price |-> 500, ratingCount |-> 0 - 2] }

\* the queries to score them for: a text that is a title, a text of the
\* searchable text only, and no text
ScoreQueries ==
  { [query |-> sTv], [query |-> sAudio, sortBy |-> "price_high"], [sortBy |-> "relevance"] }

AddScored == \E productData \in ScoreProducts : add(productData)

\* performSearch scores a product of the catalog for a query
Score == \E id \in DOMAIN products, queryParams \in ScoreQueries :
           /\ last' = [op |-> "score", id |-> id, error |-> NoError, changes |-> {},
                       q |-> Constructed[queryParams].searchQuery,
                       score |-> calculateRelevanceScore(products[id],
                                   Constructed[queryParams].searchQuery, products)]
           /\ UNCHANGED <<repoVars, svcVars, inflight, served, dataService>>

NextScore == AddScored \/ Score

SpecScore == Init /\ [][NextScore]_vars

-----------------------------------------------------------------------------
(* Scored searches while the catalog grows *)

\* two products that the text tv finds, with 9 and with 99 reviews
PopularInputs ==
  { [title |-> sTv, category |-> sVideo, price |-> 500, rating |-> 40, ratingCount |-> 9,
     stock |-> 5],
    [title |-> sTv, category |-> sVideo, price |-> 700, rating |-> 40, ratingCount |-> 99,
     stock |-> 5] }

AddPopular == \E productData \in PopularInputs : add(productData)

SearchScored == \E slot \in 1..MaxInflight, queryParams \in ScoreQueries :
                  /\ FreeSlot(slot)
                  /\ cacheStats.hits + cacheStats.misses < MaxRepeats
                  /\ searchScored(slot, queryParams)

ScoredMatched == \E slot \in 1..MaxInflight : afterRepositorySearchScored(slot)

NextScored == AddPopular \/ SearchScored \/ ScoredMatched \/ SearchStored

SpecScored == Init /\ [][NextScored]_vars

-----------------------------------------------------------------------------
(* The product routes and the handlers of ProductController *)

\* class ValidationError extends AppError: statusCode 400
ValidationError(message) == [name |-> "ValidationError", message |-> message]

\* class NotFoundError extends AppError: statusCode 404
NotFoundError(resource) == [name |-> "NotFoundError", message |-> resource]

\* errorHandler: the status of the response for an error that reached next(error);
\* the Errors of the repository carry no statusCode
statusCode(error) ==
  IF error.name = "ValidationError" THEN 400
  ELSE IF error.name = "NotFoundError" THEN 404
  ELSE 500

Digits == <<"0","1","2","3","4","5","6","7","8","9">>

DigitValue(c) == (CHOOSE i \in 1..10 : Digits[i] = c) - 1

\* the longest prefix of s made of digits
RECURSIVE LeadingDigits(_)
LeadingDigits(s) ==
  IF s = <<>> \/ Head(s) \notin DigitChars THEN <<>>
  ELSE <<Head(s)>> \o LeadingDigits(Tail(s))

RECURSIVE DecimalValue(_)
DecimalValue(ds) ==
  IF ds = <<>> THEN 0
  ELSE DecimalValue(SubSeq(ds, 1, Len(ds) - 1)) * 10 + DigitValue(ds[Len(ds)])

\* parseInt(s): the digits s starts with, after a sign; NaN when there are none
parseInt(s) ==
  LET negative == s /= <<>> /\ Head(s) = "-"
      ds       == LeadingDigits(IF negative THEN Tail(s) ELSE s)
  IN IF ds = <<>> THEN NaN
     ELSE Num(IF negative THEN 0 - DecimalValue(ds) ELSE DecimalValue(ds))

sMetaData   == <<"m","e","t","a","-","d","a","t","a">>
sCategories == <<"c","a","t","e","g","o","r","i","e","s">>
sBrands     == <<"b","r","a","n","d","s">>
sBulk       == <<"b","u","l","k">>
sCategory   == <<"c","a","t","e","g","o","r","y">>
sBrand      == <<"b","r","a","n","d">>

\* a segment of a route's path: a parameter such as :id, or a fixed text
Param       == [param |-> TRUE, text |-> <<>>]
Fixed(text) == [param |-> FALSE, text |-> text]

\* the routes of the product router in the order of their registration;
\* a path is the sequence of its segments below /api/v1/product
productRoutes ==
  << [method |-> "POST",   path |-> <<>>,                        handler |-> "createProduct"],
     [method |-> "GET",    path |-> <<Param>>,                   handler |-> "getProduct"],
     [method |-> "PUT",    path |-> <<Param>>,                   handler |-> "updateProduct"],
     [method |-> "DELETE", path |-> <<Param>>,                   handler |-> "deleteProduct"],
     [method |-> "POST",   path |-> <<Fixed(sBulk)>>,            handler |-> "bulkCreateProducts"],
     [method |-> "PUT",    path |-> <<Fixed(sMetaData)>>,        handler |-> "updateMetadata"],
     [method |-> "GET",    path |-> <<Fixed(sCategory), Param>>, handler |-> "getByCategory"],
     [method |-> "GET",    path |-> <<Fixed(sBrand), Param>>,    handler |-> "getByBrand"],
     [method |-> "GET",    path |-> <<Fixed(sCategories)>>,      handler |-> "getCategories"],
     [method |-> "GET",    path |-> <<Fixed(sBrands)>>,          handler |-> "getBrands"] >>

\* the route matches the request: same method, and segment by segment a
\* parameter takes any text and a fixed segment its own
Matches(route, method, path) ==
  /\ route.method = method
  /\ Len(route.path) = Len(path)
  /\ \A i \in 1..Len(path) : route.path[i].param \/ route.path[i].text = path[i]

\* express.Router: the handler of the first registered route that matches
dispatch(method, path) ==
  LET hits == {i \in 1..Len(productRoutes) : Matches(productRoutes[i], method, path)}
  IN IF hits = {} THEN "none"
     ELSE productRoutes[CHOOSE i \in hits : \A j \in hits : i <= j].handler

\* the properties a schema of the controller knows
CreateKeys == {"title", "description", "category", "subcategory", "brand", "model",
               "price", "mrp", "currency", "rating", "ratingCount", "stock",
               "imageUrls", "metadata", "tags"}
UpdateKeys == CreateKeys \cup {"isActive"}

\* the limits the schemas put on the properties the requests carry
\* (title min 3, price positive, rating 0 to 5, stock min 0)
JoiValues(body) ==
  /\ "title" \in DOMAIN body => Len(body.title) >= 3
  /\ "price" \in DOMAIN body => body.price > 0
  /\ "rating" \in DOMAIN body => body.rating >= 0 /\ body.rating <= 50
  /\ "stock" \in DOMAIN body => body.stock >= 0

\* createProductSchema.validate(body) reports no error
createProductSchema(body) ==
  /\ DOMAIN body \subseteq CreateKeys
  /\ {"title", "description", "price", "stock"} \subseteq DOMAIN body
  /\ JoiValues(body)

\* updateProductSchema.validate(body) reports no error
updateProductSchema(body) ==
  /\ DOMAIN body \subseteq UpdateKeys
  /\ JoiValues(body)

\* updateMetadataSchema.validate(body) reports no error
updateMetadataSchema(body) ==
  /\ DOMAIN body = {"productId", "metadata"}
  /\ body.productId > 0

\* a handler that answers without a call that changes the repository
Respond(handler, id, error, status, body) ==
  /\ last' = [op |-> handler, id |-> id, error |-> error, changes |-> {},
              status |-> status, body |-> body]
  /\ UNCHANGED <<repoVars, svcVars, inflight, served, dataService>>

NoBody == <<>>

\* ProductController.createProduct
createProduct(body) ==
  IF ~createProductSchema(body)
  THEN Respond("createProduct", 0, ValidationError("Invalid product data"), 400, NoBody)
  ELSE add(body)

\* ProductController.getProduct
getProduct(id) ==
  LET productId == parseInt(id)
  IN IF productId = NaN
     THEN Respond("getProduct", 0, ValidationError("Invalid product ID"), 400, NoBody)
     ELSE IF productId.v \notin DOMAIN products
          THEN Respond("getProduct", productId.v, NotFoundError("Product"), 404, NoBody)
          ELSE Respond("getProduct", productId.v, NoError, 200,
                       toJSON(products[productId.v]))

\* ProductController.updateProduct
updateProduct(id, body) ==
  LET productId == parseInt(id)
  IN IF productId = NaN
     THEN Respond("updateProduct", 0, ValidationError("Invalid product ID"), 400, NoBody)
     ELSE IF ~updateProductSchema(body)
          THEN Respond("updateProduct", productId.v,
                       ValidationError("Invalid product data"), 400, NoBody)
          ELSE update(productId.v, body)

\* ProductController.updateMetadata
updateMetadataHandler(body) ==
  IF ~updateMetadataSchema(body)
  THEN Respond("updateMetadata", 0, ValidationError("Invalid metadata"), 400, NoBody)
  ELSE updateMetadata(body.productId, body.metadata)

\* ProductController.getCategories; the keys of the index stand for the
\* sorted array of them
getCategoriesHandler ==
  Respond("getCategories", 0, NoError, 200, DOMAIN categoryIndex)

\* ProductController.getBrands
getBrandsHandler ==
  Respond("getBrands", 0, NoError, 200, DOMAIN brandIndex)

\* the router hands the request to the handler of the route it chose
handle(method, path, body) ==
  LET handler == dispatch(method, path)
  IN CASE handler = "createProduct"  -> createProduct(body)
       [] handler = "getProduct"     -> getProduct(path[1])
       [] handler = "updateProduct"  -> updateProduct(path[1], body)
       [] handler = "updateMetadata" -> updateMetadataHandler(body)
       [] handler = "getCategories"  -> getCategoriesHandler
       [] handler = "getBrands"      -> getBrandsHandler
       [] OTHER                      -> FALSE

\* the handler an entry of the history stands for
HandlerOf(entry) ==
  CASE entry.op = "add"    -> "createProduct"
    [] entry.op = "update" -> "updateProduct"
    [] OTHER               -> entry.op

\* the status of the response: 201 after createProduct, 200 after the other
\* handlers, the error handler's status after next(error)
StatusOf(entry) ==
  IF "status" \in DOMAIN entry THEN entry.status
  ELSE IF entry.error /= NoError THEN statusCode(entry.error)
  ELSE IF entry.op = "add" THEN 201
  ELSE 200

sFm == <<"F","m">>

\* bodies of POST /api/v1/product: two that the schema accepts and one with a
\* title that is too short
CreateBodies ==
  { [title |-> sRadio, description |-> sFm, category |-> sAudio, brand |-> sSony,
     price |-> 200, stock |-> 5],
    [title |-> <<"C","h","e","a","p"," ","T","v">>, description |-> sOled,
     category |-> sVideo, price |-> 500, stock |-> 60],
    [title |-> sTv, description |-> sOled, price |-> 500, stock |-> 5] }

\* bodies of PUT /api/v1/product/:id
UpdateBodies == { [price |-> 700, stock |-> 15], [price |-> 0] }

\* bodies of PUT /api/v1/product/meta-data: valid ones for both ids, and one
\* without productId
MetadataBodies ==
  { [productId |-> 1, metadata |-> << <<"color", sRed>> >>],
    [productId |-> 2, metadata |-> << <<"color", sRed>> >>],
    [metadata |-> << <<"color", sRed>> >>] }

\* paths of one segment below /api/v1/product
IdPaths    == { << <<"1">> >>, << <<"2">> >>, << <<"9">> >> }
FixedPaths == { <<sCategories>>, <<sBrands>> }

PostProduct == \E body \in CreateBodies : handle("POST", <<>>, body)

GetPath == \E path \in IdPaths \cup FixedPaths : handle("GET", path, NoBody)

PutProduct == \E path \in IdPaths, body \in UpdateBodies : handle("PUT", path, body)

PutMetaData == \E body \in MetadataBodies : handle("PUT", <<sMetaData>>, body)

NextRoutes == PostProduct \/ GetPath \/ PutProduct \/ PutMetaData

SpecRoutes == Init /\ [][NextRoutes]_vars

-----------------------------------------------------------------------------
(* SearchController.advancedSearch as a caller of the search service *)

\* the properties searchSchema gives a default
SchemaDefaults == {"limit", "offset", "sortBy"}

\* Object.values(value).filter(v => v !== undefined && v !== null && v !== "").length
\* for the value of searchSchema.validate(params); query is the one property
\* the schema allows to be ""
filterCount(params) ==
  Cardinality({k \in (DOMAIN params) \cup SchemaDefaults :
                 ~(k = "query" /\ k \in DOMAIN params /\ params.query = <<>>)})

\* results.analytics = { ... }: the response object with the property set
WithAnalytics(results, params) ==
  Spread(results, [analytics |-> [searchType    |-> "advanced",
                                  filterCount   |-> filterCount(params),
                                  executionTime |-> results.executionTime]])

\* advancedSearch after `await searchService.search(value)`: the search of
\* the last step has returned its response to this caller. The response is the
\* object that the cache entry of the key holds as its data, so the
\* assignment to results.analytics shows in the entry
advancedSearch(queryParams) ==
  /\ last.op = "search"
  /\ last.step \in {"hit", "stored"}
  /\ Constructed[queryParams].error = "none"
  /\ Constructed[queryParams].cacheKey = last.key
  /\ LET results == WithAnalytics(last.response, queryParams)
     IN /\ searchCache' =
             [i \in 1..Len(searchCache) |->
                IF searchCache[i].key = last.key
                THEN [searchCache[i] EXCEPT !.data = results]
                ELSE searchCache[i]]
        /\ last' = [op |-> "advancedSearch", id |-> last.id, error |-> NoError,
                    changes |-> {}, key |-> last.key, response |-> results]
  /\ UNCHANGED <<repoVars, cacheStats, now, inflight, served, dataService>>

AdvancedSearch == \E queryParams \in SearchInputs : advancedSearch(queryParams)

NextAdvanced == AddProduct \/ SearchAlone \/ SearchMatched \/ SearchStored \/ AdvancedSearch

SpecAdvanced == Init /\ [][NextAdvanced]_vars

-----------------------------------------------------------------------------
(* DataService: initialize and the getters *)

\* invocations of initialize in one behaviour
MaxInitialize == 2

\* the products of data/products.json, or the sample products when there is no file
InitialData == Shelf

\* initialize() up to `await this.loadInitialData()`, which runs on to the
\* file access that loadFromFile awaits
initialize ==
  LET call == Len(dataService.calls) + 1
  IN /\ call <= MaxInitialize
     /\ IF dataService.initialized
        THEN /\ dataService' = [dataService EXCEPT !.calls = Append(@, "done")]
             /\ last' = [op |-> "initialize", id |-> call, error |-> NoError,
                         changes |-> {}, step |-> "already initialized"]
             /\ UNCHANGED <<repoVars, svcVars, inflight, served>>
        ELSE /\ dataService' = [dataService EXCEPT
                                  !.productRepository = @ + 1,
                                  !.searchService = @ + 1,
                                  !.calls = Append(@, "loading")]
             /\ products' = EmptyMap
             /\ nextId' = 1
             /\ SetIndexes([search |-> EmptyMap, category |-> EmptyMap, brand |-> EmptyMap,
                            priceRange |-> EmptyMap, ratingBucket |-> EmptyMap,
                            stockStatus |-> EmptyMap])
             /\ stats' = [totalProducts |-> 0, totalIndexEntries |-> 0]
             /\ searchCache' = <<>>
             /\ cacheStats' = [hits |-> 0, misses |-> 0, evictions |-> 0]
             /\ served' = NoneServed
             /\ last' = [op |-> "initialize", id |-> call, error |-> NoError,
                         changes |-> {}, step |-> "created"]
             /\ UNCHANGED <<now, inflight>>

\* loadFromFile or generateSampleData of an invocation, after the file access:
\* `await this.productRepository.bulkLoad(products)` on the repository that
\* the property names at that moment
loadInitialData(call) ==
  /\ call \in DOMAIN dataService.calls
  /\ dataService.calls[call] = "loading"
  /\ bulkLoad(InitialData)
  /\ dataService' = [dataService EXCEPT !.calls[call] = "loaded", !.loads = @ + 1]

\* initialize() after `await this.loadInitialData()`
afterLoadInitialData(call) ==
  /\ call \in DOMAIN dataService.calls
  /\ dataService.calls[call] = "loaded"
  /\ dataService' = [dataService EXCEPT !.calls[call] = "done", !.initialized = TRUE]
  /\ last' = [op |-> "initialize", id |-> call, error |-> NoError,
              changes |-> {}, step |-> "initialized"]
  /\ UNCHANGED <<repoVars, svcVars, inflight, served>>

\* getProductRepository()
getProductRepository ==
  /\ last' = [op |-> "getProductRepository",
              id |-> IF dataService.initialized THEN dataService.productRepository ELSE 0,
              error |-> IF dataService.initialized THEN NoError
                        ELSE PlainError("Data service not initialized"),
              changes |-> {}]
  /\ UNCHANGED <<repoVars, svcVars, inflight, served, dataService>>

\* getSearchService().search(queryParams) of a request, for a caller that
\* awaits each search
getSearchService(queryParams) ==
  IF dataService.initialized
  THEN /\ \A slot \in 1..MaxInflight : inflight[slot] = Idle
       /\ cacheStats.hits + cacheStats.misses < MaxRepeats
       /\ search(1, queryParams)
  ELSE /\ last' = [op |-> "getSearchService", id |-> 0,
                   error |-> PlainError("Data service not initialized"),
                   changes |-> {}]
       /\ UNCHANGED <<repoVars, svcVars, inflight, served, dataService>>

Initialize == initialize

LoadInitialData == \E call \in 1..MaxInitialize : loadInitialData(call)

Initialized == \E call \in 1..MaxInitialize : afterLoadInitialData(call)

GetProductRepository == getProductRepository

SearchInitialized == \E queryParams \in SearchInputs : getSearchService(queryParams)

NextInitialize ==
  Initialize \/ LoadInitialData \/ Initialized \/ GetProductRepository
    \/ SearchInitialized \/ SearchMatched \/ SearchStored

SpecInitialize == Init /\ [][NextInitialize]_vars

-----------------------------------------------------------------------------
(* Properties of the catalog store *)

\* the index lists id under key and under no other key
ListedExactlyUnder(index, key, id) ==
  /\ id \in Listed(index, key)
  /\ \A k \in DOMAIN index : id \in index[k] => k = key

\* the tokens of a product's searchableText
TokensOf(product) == Range(extractSearchTerms(product.searchableText))

\* the text generateSearchableText derives from the product's current fields
DerivedText(product) ==
  generateSearchableText(product.title, product.description, product.brand,
                         product.model, product.category, product.subcategory,
                         product.tags, product.metadata)

Succeeded(op) == last.op = op /\ last.error = NoError

\* C1: every product of the primary map is listed in the category index (when
\* it has a category), the brand index (when it has a brand), the price-range,
\* rating-bucket and stock-status indexes under exactly the key derived from
\* its current field values, and under no other key of that index.
C1_IndexesMatchProducts ==
  \A id \in DOMAIN products :
    LET p == products[id]
    IN /\ Truthy(p.category) =>
            ListedExactlyUnder(categoryIndex, toLowerCase(p.category), id)
       /\ Truthy(p.brand) => ListedExactlyUnder(brandIndex, toLowerCase(p.brand), id)
       /\ ListedExactlyUnder(priceRangeIndex, getPriceRange(p), id)
       /\ ListedExactlyUnder(ratingBucketIndex, getRatingBucket(p), id)
       /\ ListedExactlyUnder(stockStatusIndex, getStockStatus(p), id)

\* an index has no empty set and lists only ids of the primary map
NoDanglingNoEmpty(index) ==
  \A k \in DOMAIN index : index[k] /= {} /\ index[k] \subseteq DOMAIN products

\* C2: every product id in a set of any of the six indexes is a key of the
\* primary product map, and no index key maps to an empty set.
C2_NoDanglingIdsNoEmptySets ==
  /\ NoDanglingNoEmpty(searchIndex)
  /\ NoDanglingNoEmpty(categoryIndex)
  /\ NoDanglingNoEmpty(brandIndex)
  /\ NoDanglingNoEmpty(priceRangeIndex)
  /\ NoDanglingNoEmpty(ratingBucketIndex)
  /\ NoDanglingNoEmpty(stockStatusIndex)

\* C2's case: an update has just taken product 1 out of keys it shared with
\* product 2 (which stay) and out of keys it held alone (which are gone)
C2_Witness ==
  /\ last.op = "update"
  /\ DOMAIN products = {1, 2}
  /\ \E k \in DOMAIN categoryIndex : categoryIndex[k] = {2}
  /\ \E k \in DOMAIN priceRangeIndex : priceRangeIndex[k] = {1}
  /\ Cardinality(DOMAIN priceRangeIndex) = 2

-----------------------------------------------------------------------------
(* Properties of the search service *)

\* the step is a call of search with parameters the constructor accepts
SearchCalled == last'.op = "search" /\ last'.step \in {"hit", "miss", "failed"}

\* the call is answered from the cache: same response as the completed search
\* of the key, one more hit, no more misses
AnsweredAgain ==
  /\ last'.step = "hit"
  /\ last'.response = served[last'.key].response
  /\ cacheStats'.hits = cacheStats.hits + 1
  /\ cacheStats'.misses = cacheStats.misses

ResponseIds(response) ==
  {response.data[i].productId : i \in 1..Len(response.data)}

\* the products of the catalog as it is that a search of q lists
MatchingNow(q) ==
  LET candidates == IF Truthy(q.query)
                    THEN RepositorySearch(products, Indexes, q.query, q)
                    ELSE AllProducts(products)
  IN ResponseIds(performSearch(q, candidates, 0))

\* C4: a search called after a catalog mutation lists the products that match
\* its query in the catalog as it is, also when it is answered from the cache.
C4_MutationVisibleToLaterSearch ==
  (last.op = "search" /\ last.step = "hit")
  => MatchingNow(last.q) \subseteq ResponseIds(last.response)

\* C5: a lookup of an entry whose age is TTL or more is a miss and takes the
\* entry out of the cache; a lookup of a younger entry returns the entry's
\* data and leaves the entry as it is.
C5_CacheServesOnlyEntriesYoungerThanTtl ==
  [][(SearchCalled /\ CacheHas(searchCache, last'.key))
     => LET entry == CacheGet(searchCache, last'.key)
        IN IF now - entry.timestamp >= TTL
           THEN last'.step /= "hit" /\ ~CacheHas(searchCache', last'.key)
           ELSE /\ last'.step = "hit"
                /\ last'.response = entry.data
                /\ CacheHas(searchCache', last'.key)
                /\ CacheGet(searchCache', last'.key) = entry]_vars

\* C5's case: a lookup has found an entry of age TTL or more and removed it
C5_Witness ==
  /\ last.op = "search" /\ last.step = "miss"
  /\ last.removed /= <<>>
  /\ now - last.removed[1].timestamp >= TTL
  /\ ~CacheHas(searchCache, last.key)

\* C6: the cache never holds more than maxCacheSize entries, and the entry an
\* insertion evicts from a full cache has the smallest insertion timestamp of
\* the entries that were in the cache.
C6_BoundedCacheEvictsEarliestInserted ==
  [][/\ Len(searchCache') <= maxCacheSize
     /\ (last'.op = "search" /\ last'.step = "stored" /\ last'.removed /= <<>>)
        => \A i \in 1..Len(searchCache) :
              last'.removed[1].timestamp <= searchCache[i].timestamp]_vars

-----------------------------------------------------------------------------
(* Properties of the catalog store's operations *)

\* C7: after update(id, partial) succeeds with a changed title, description,
\* brand, model, category, subcategory or tags, the stored searchableText is
\* the text derived from the new field values and the token index lists the
\* product under exactly the tokens of that text.
C7_UpdateRegeneratesSearchableText ==
  (Succeeded("update")
     /\ last.changes \cap {"title", "description", "brand", "model", "category",
                           "subcategory", "tags"} /= {})
  => /\ products[last.id].searchableText = DerivedText(products[last.id])
     /\ \A t \in Range(extractSearchTerms(DerivedText(products[last.id]))) :
           last.id \in Listed(searchIndex, t)
     /\ \A k \in DOMAIN searchIndex :
           last.id \in searchIndex[k]
             => k \in Range(extractSearchTerms(DerivedText(products[last.id])))

\* C8: update(id, partial) on an id that is not a key of the primary map fails
\* with NotFoundError and leaves the primary map and the six indexes as they were.
C8_UpdateOfMissingIdIsNotFoundError ==
  [][(last'.op = "update" /\ last'.id \notin DOMAIN products)
     => /\ last'.error.name = "NotFoundError"
        /\ UNCHANGED <<products, indexVars>>]_vars

\* C9: add(product) that fails the validation of title, price, rating or stock
\* fails with ValidationError and leaves the primary map and the six indexes
\* as they were.
C9_InvalidAddIsValidationError ==
  [][(last'.op = "add" /\ last'.error /= NoError)
     => /\ last'.error.name = "ValidationError"
        /\ UNCHANGED <<products, indexVars>>]_vars

\* C10: updateMetadata(id, map) on an existing product leaves the category,
\* brand, price-range, rating-bucket and stock-status indexes as they were,
\* and afterwards the token index lists the product under exactly the tokens
\* of its regenerated searchableText.
C10_MetadataUpdateTokenIndexExact ==
  [][(last'.op = "updateMetadata" /\ last'.error = NoError)
     => /\ UNCHANGED <<categoryIndex, brandIndex, priceRangeIndex,
                       ratingBucketIndex, stockStatusIndex>>
        /\ products'[last'.id].searchableText = DerivedText(products'[last'.id])
        /\ \A t \in TokensOf(products'[last'.id]) :
              last'.id \in Listed(searchIndex', t)
        /\ \A k \in DOMAIN searchIndex' :
              last'.id \in searchIndex'[k] => k \in TokensOf(products'[last'.id])]_vars

-----------------------------------------------------------------------------
(* Properties of the soft delete *)

\* C11: deleting a product sets isActive to false and nothing else: the
\* product stays in the primary map and the six indexes are the same after
\* the delete as before it.
C11_DeleteIsSoftAndLeavesIndexes ==
  [][(last'.op = "update" /\ last'.changes = {"isActive"}
        /\ last'.id \in DOMAIN products)
     => /\ last'.error = NoError
        /\ products' = [products EXCEPT ![last'.id].isActive = FALSE]
        /\ UNCHANGED indexVars]_vars


-----------------------------------------------------------------------------
(* Properties of the search over soft-deleted products *)

\* C12: the response a search without a text query computes holds no product
\* whose isActive is false in its data, and totalResults counts no such
\* product: it is at most the number of active products that pass the filters
C12_NoTextSearchSkipsInactive ==
  [][(last'.op = "search" /\ last'.step = "miss" /\ ~Truthy(last'.q.query))
     => LET results == inflight'[last'.id].results
            active  == {id \in DOMAIN products :
                          /\ products[id].isActive
                          /\ ~matchesFiltersThrows(last'.q, products[id])
                          /\ matchesFilters(last'.q, products[id])}
        IN /\ \A i \in 1..Len(results.data) :
                products[results.data[i].productId].isActive
           /\ results.totalResults <= Cardinality(active)]_vars


-----------------------------------------------------------------------------
(* Properties of the parameters of search *)

\* C13: search(params) fails with ValidationError when limit is outside
\* 1..100, offset is negative, minPrice is greater than maxPrice, minRating is
\* outside 0..5 or sortBy is not one of the six sort orders
C13_OutOfRangeParametersAreValidationErrors ==
  [][\A params \in ParameterInputs :
       LET given(f)   == f \in DOMAIN params
           outOfRange ==
             \/ given("limit") /\ params.limit \notin 1..100
             \/ given("offset") /\ params.offset < 0
             \/ given("minPrice") /\ given("maxPrice") /\ params.minPrice > params.maxPrice
             \/ given("minRating") /\ params.minRating \notin 0..50
             \/ given("sortBy") /\ params.sortBy \notin validSortOptions
       IN (outOfRange /\ search(1, params))
          => last'.step = "rejected" /\ last'.error.name = "ValidationError"]_vars


-----------------------------------------------------------------------------
(* Properties of the response of a search *)

\* C14: for every query that search accepts, with T the number of products
\* that pass the filters: totalResults is T, data holds exactly
\* min(limit, max(0, T - offset)) items and never more than limit, which are
\* the items at positions offset..offset+limit-1 of the sorted list, hasNext
\* is true exactly when offset + limit < T and hasPrevious exactly when
\* offset > 0
C14_PageOfSortedResults ==
  [][(last'.op = "search" /\ last'.step \in {"miss", "computed"}
        /\ inflight'[last'.id].phase = "caching")
     => LET q          == last'.q
            results    == inflight'[last'.id].results
            candidates == IF Truthy(q.query)
                          THEN RepositorySearch(products, Indexes, q.query, q)
                          ELSE AllProducts(products)
            passing    == SelectSeq(candidates, LAMBDA product : matchesFilters(q, product))
            sorted     == SortProducts(passing, q.sortBy)
            T          == Len(passing)
        IN /\ results.totalResults = T
           /\ Len(results.data) = Min(q.limit, Max(0, T - q.offset))
           /\ Len(results.data) <= q.limit
           /\ \A i \in 1..Len(results.data) :
                /\ q.offset + i <= T
                /\ results.data[i] = SearchResult(sorted[q.offset + i])
           /\ results.pagination.hasNext = (q.offset + q.limit < T)
           /\ results.pagination.hasPrevious = (q.offset > 0)]_vars

\* C15: the prices of the items of a response, in response order, are
\* non-decreasing under sortBy=price_low and non-increasing under
\* sortBy=price_high, on every page including the first
C15_PriceOrderOnEveryPage ==
  [][(last'.op = "search" /\ last'.step \in {"miss", "computed"}
        /\ inflight'[last'.id].phase = "caching")
     => LET data == inflight'[last'.id].results.data
        IN \A i \in 1..(Len(data) - 1) :
             /\ last'.q.sortBy = "price_low" => data[i].price <= data[i + 1].price
             /\ last'.q.sortBy = "price_high" => data[i].price >= data[i + 1].price]_vars


-----------------------------------------------------------------------------
(* Properties of the relevance score *)

\* C16: for every product and every query calculateRelevanceScore returns a
\* value between 0 and 1 inclusive
C16_RelevanceScoreBetweenZeroAndOne ==
  last.op = "score"
    => /\ last.score.kind = "number"
       /\ 0 <= last.score.v /\ last.score.v <= Unit

-----------------------------------------------------------------------------
(* Properties of the search of the catalog store *)

\* C17: search(query, filters) of the catalog store returns exactly the
\* products that the token index lists under at least one token of the query
\* and that are in the index set of every filter supplied (category, brand,
\* price bucket, rating bucket; for inStock any of LOW_STOCK, MEDIUM_STOCK,
\* HIGH_STOCK), each product once
C17_CandidatesAreIndexUnionWithinFilters ==
  [][(last'.op = "search" /\ last'.step = "miss" /\ Truthy(last'.q.query))
     => LET q        == last'.q
            returned == inflight'[last'.id].products
            tokens   == Range(extractSearchTerms(q.query))
            inStock  == Listed(stockStatusIndex, "LOW_STOCK")
                        \cup Listed(stockStatusIndex, "MEDIUM_STOCK")
                        \cup Listed(stockStatusIndex, "HIGH_STOCK")
            expected ==
              {id \in DOMAIN products :
                 /\ \E t \in tokens : id \in Listed(searchIndex, t)
                 /\ Truthy(q.category) => id \in Listed(categoryIndex, toLowerCase(q.category))
                 /\ Truthy(q.brand) => id \in Listed(brandIndex, toLowerCase(q.brand))
                 /\ q.priceRange /= NoName => id \in Listed(priceRangeIndex, q.priceRange)
                 /\ q.ratingRange /= NoName => id \in Listed(ratingBucketIndex, q.ratingRange)
                 /\ q.inStock => id \in inStock}
        IN /\ {returned[i].productId : i \in 1..Len(returned)} = expected
           /\ Len(returned) = Cardinality(expected)
           /\ \A i \in 1..Len(returned) : returned[i] = products[returned[i].productId]]_vars

\* a search of several tokens with a filter has returned two products, each
\* listed under one of the tokens and not under another, and has left out a
\* product that is listed under a token and is not in the filter's index set
C17_Witness ==
  /\ last.op = "search" /\ last.step = "miss" /\ Truthy(last.q.query)
  /\ inflight[last.id].phase = "matching"
  /\ last.q.inStock
  /\ LET returned == inflight[last.id].products
         tokens   == Range(extractSearchTerms(last.q.query))
     IN /\ Len(returned) = 2
        /\ \A i \in 1..2 :
             /\ \E t \in tokens : returned[i].productId \in Listed(searchIndex, t)
             /\ \E t \in tokens : returned[i].productId \notin Listed(searchIndex, t)
        /\ \E id \in DOMAIN products, t \in tokens :
             /\ id \in Listed(searchIndex, t)
             /\ id \in Listed(stockStatusIndex, "OUT_OF_STOCK")

\* C18: every item of the response computed for an accepted query satisfies
\* every filter the parameters supply: category and brand equal the filter
\* without regard to case, minPrice <= price <= maxPrice, rating >= minRating,
\* stock > 0 when inStock is the boolean true or the string "true", and the
\* price bucket and rating bucket equal priceRange and ratingRange
C18_EveryItemSatisfiesEveryFilter ==
  \A slot \in 1..MaxInflight, params \in ShelfInputs :
    (/\ inflight[slot] /= Idle
     /\ inflight[slot].phase = "caching"
     /\ Constructed[params].error = "none"
     /\ Constructed[params].cacheKey = inflight[slot].key)
    => LET given(f) == f \in DOMAIN params
           data     == inflight[slot].results.data
       IN \A i \in 1..Len(data) :
            /\ given("category")
                 => toLowerCase(data[i].category) = toLowerCase(params.category)
            /\ given("brand") => toLowerCase(data[i].brand) = toLowerCase(params.brand)
            /\ given("minPrice") => data[i].price >= params.minPrice
            /\ given("maxPrice") => data[i].price <= params.maxPrice
            /\ given("minRating") => data[i].rating >= params.minRating
            /\ (given("inStock") /\ params.inStock \in {JsStringTrue, JsBooleanTrue})
                 => data[i].stock > 0
            /\ given("priceRange") => getPriceRange(data[i]) = params.priceRange
            /\ given("ratingRange") => getRatingBucket(data[i]) = params.ratingRange

-----------------------------------------------------------------------------
(* Properties of the normalization of the query *)

\* C19: a query with sasta, sastey or saste as a whole word is rewritten with
\* the word cheap in its place before it is tokenized, by the regional table
\* and then the table of misspellings over the whole string, and the response
\* of its search holds every product that passes the filters and has the token
\* cheap in its title (as far as the page reaches)
C19_CheapSynonymFindsCheapTitles ==
  [][\A params \in CheapSynonymInputs :
       (/\ last'.op = "search"
        /\ last'.key = Constructed[params].cacheKey
        /\ \/ last'.step = "hit"
           \/ last'.step = "computed" /\ inflight'[last'.id].phase = "caching")
       => LET q        == last'.q
              cheap    == <<"c","h","e","a","p">>
              response == IF last'.step = "hit" THEN last'.response
                          ELSE inflight'[last'.id].results
              returned == {response.data[i].productId : i \in 1..Len(response.data)}
              expected ==
                {id \in DOMAIN products' :
                   /\ cheap \in Range(extractSearchTerms(products'[id].title))
                   /\ matchesFilters(q, products'[id])
                   /\ q.priceRange /= NoName => getPriceRange(products'[id]) = q.priceRange
                   /\ q.ratingRange /= NoName
                        => getRatingBucket(products'[id]) = q.ratingRange}
          IN /\ q.query = correctCommonMisspellings(
                            normalizeHinglishQuery(toLowerCase(trim(params.query))))
             /\ \E i \in 1..Len(q.query) - 4 : SubSeq(q.query, i, i + 4) = cheap
             /\ \A i \in 1..Len(q.query) - 4 : SubSeq(q.query, i, i + 3) /= <<"s","a","s","t">>
             /\ (q.offset = 0 /\ Cardinality(expected) <= q.limit)
                  => expected \subseteq returned]_vars

-----------------------------------------------------------------------------
(* Properties of the bulk load *)

\* C20: bulkLoad over N raw products returns successCount + errorCount = N; an
\* item that fails validation is counted in errorCount and is neither stored
\* nor listed in an index, and every item that validates is stored and
\* indexed, also when it comes after one that failed
C20_BulkLoadCountsAndSkipsFailures ==
  [][last'.op = "bulkLoad"
     => LET raw     == last'.rawProducts
            N       == Len(raw)
            idOf(i) == nextId + (i - 1)
            fails(i) == ProductError(Spread(raw[i], [productId |-> idOf(i)])) /= "none"
            failing == {i \in 1..N : fails(i)}
            listed(index) == UNION {index[k] : k \in DOMAIN index}
        IN /\ last'.successCount + last'.errorCount = N
           /\ last'.errorCount = Cardinality(failing)
           /\ \A i \in failing :
                /\ idOf(i) \notin DOMAIN products'
                /\ idOf(i) \notin listed(searchIndex') \cup listed(categoryIndex')
                                  \cup listed(brandIndex') \cup listed(priceRangeIndex')
                                  \cup listed(ratingBucketIndex') \cup listed(stockStatusIndex')
           /\ \A i \in (1..N) \ failing :
                /\ idOf(i) \in DOMAIN products'
                /\ products'[idOf(i)].title = raw[i].title
                /\ products'[idOf(i)].price = raw[i].price
                /\ idOf(i) \in Listed(priceRangeIndex', getPriceRange(raw[i]))
                /\ idOf(i) \in Listed(categoryIndex', toLowerCase(raw[i].category))
                /\ \A t \in Range(extractSearchTerms(raw[i].title)) :
                     idOf(i) \in Listed(searchIndex', t)]_vars

\* a bulk load of four items has counted the two that fail and has stored the
\* two that validate, each of which comes after one that failed
C20_Witness ==
  /\ last.op = "bulkLoad"
  /\ Len(last.rawProducts) = 4
  /\ last.successCount = 2 /\ last.errorCount = 2
  /\ DOMAIN products = {2, 4}
  /\ products[4].title = last.rawProducts[4].title
  /\ 4 \in Listed(categoryIndex, toLowerCase(products[4].category))

-----------------------------------------------------------------------------
(* Properties of requests that interleave *)

\* C21: the catalog that a search reads, whatever requests are between their
\* await points, has every product of the primary map listed in each index
\* under the key it belongs to, and lists no id that is not in the primary map
C21_SearchReadsConsistentCatalog ==
  [][(last'.op = "search" /\ last'.step = "miss")
     => /\ \A id \in DOMAIN products :
             LET p == products[id]
             IN /\ Truthy(p.category) => id \in Listed(categoryIndex, toLowerCase(p.category))
                /\ Truthy(p.brand) => id \in Listed(brandIndex, toLowerCase(p.brand))
                /\ id \in Listed(priceRangeIndex, getPriceRange(p))
                /\ id \in Listed(ratingBucketIndex, getRatingBucket(p))
                /\ id \in Listed(stockStatusIndex, getStockStatus(p))
                /\ \A t \in Range(extractSearchTerms(p.searchableText)) :
                     id \in Listed(searchIndex, t)
        /\ LET known(index) == \A k \in DOMAIN index : index[k] \subseteq DOMAIN products
           IN /\ known(searchIndex) /\ known(categoryIndex) /\ known(brandIndex)
              /\ known(priceRangeIndex) /\ known(ratingBucketIndex)
              /\ known(stockStatusIndex)]_vars

\* C22: the stockStatus of every item of a response, computed or served from
\* the cache, is the status Product.getStockStatus derives from the item's
\* stock: OUT_OF_STOCK for 0, LOW_STOCK up to 10, MEDIUM_STOCK up to 50,
\* HIGH_STOCK above
C22_StockStatusOfItemsIsGetStockStatus ==
  /\ \A slot \in 1..MaxInflight :
       inflight[slot].phase = "caching"
         => \A i \in 1..Len(inflight[slot].results.data) :
              inflight[slot].results.data[i].stockStatus
                = getStockStatus(inflight[slot].results.data[i])
  /\ (last.op = "search" /\ last.step = "hit")
       => \A i \in 1..Len(last.response.data) :
            last.response.data[i].stockStatus = getStockStatus(last.response.data[i])

-----------------------------------------------------------------------------
(* Properties of the identity and the text of added products *)

\* C23: after add of a product with tags and without a searchableText of its
\* own, the stored searchableText contains every tag in lower case and the
\* token index lists the product under every token of its tags
C23_TagsAreSearchable ==
  [][(last'.op = "add" /\ last'.error = NoError /\ products'[last'.id].tags /= <<>>)
     => LET product == products'[last'.id]
        IN \A i \in 1..Len(product.tags) :
             /\ Includes(product.searchableText, toLowerCase(product.tags[i]))
             /\ \A t \in Range(extractSearchTerms(product.tags[i])) :
                  last'.id \in Listed(searchIndex', t)]_vars

\* C24: the response a search computes after its await, which is the entry it
\* stores in the cache, is the response computed from the catalog as it was
\* when the search read its candidates, or the one computed from the catalog
\* as it is when the search resumes: candidates, filtering and the maxima of
\* the popularity score come from one state
C24_ResponseFromOneCatalogState ==
  [][\A slot \in 1..MaxInflight :
       (/\ inflight[slot].phase = "matching"
        /\ "catalog" \in DOMAIN inflight[slot]
        /\ inflight'[slot].phase = "caching")
       => LET run    == inflight[slot]
              before == performSearchScored(run.q, run.products, run.catalog,
                                            now - run.startTime)
              after  == performSearchScored(
                          run.q, RepositorySearch(products, Indexes, run.q.query, run.q),
                          products, now - run.startTime)
          IN inflight'[slot].results \in {before, after}]_vars

-----------------------------------------------------------------------------
(* Properties of the product routes *)

\* the request of a step is a PUT to /product/meta-data with the given body
IsPutMetaData(body) == handle("PUT", <<sMetaData>>, body)

\* C25: the fixed-path product routes are reachable: a PUT to
\* /product/meta-data with a valid body for a stored product is handled by the
\* metadata-update handler and answers 200 with the merged metadata, and a GET
\* to /product/categories or /product/brands is handled by the listing
\* handlers; none is captured by the /product/:id route.
C25_FixedPathRoutesAreReachable ==
  [][/\ \A body \in MetadataBodies :
          (/\ updateMetadataSchema(body)
           /\ body.productId \in DOMAIN products
           /\ IsPutMetaData(body))
          => /\ HandlerOf(last') = "updateMetadata"
             /\ StatusOf(last') = 200
             /\ products'[body.productId].metadata =
                  MergeMetadata(products[body.productId].metadata, body.metadata)
     /\ handle("GET", <<sCategories>>, NoBody) => HandlerOf(last') = "getCategories"
     /\ handle("GET", <<sBrands>>, NoBody) => HandlerOf(last') = "getBrands"]_vars

\* a PUT to /product/meta-data has been answered for a catalog that holds the product
C25_Witness ==
  /\ last.op = "updateProduct"
  /\ last.error = ValidationError("Invalid product ID")
  /\ 1 \in DOMAIN products

-----------------------------------------------------------------------------
(* Properties of failed and of id-less calls of the catalog store *)

\* C26: update(id, partial) on a stored product that fails the validation of
\* the merged product leaves the stored product and its entries in the six
\* indexes as they were, so that the product is still listed under the tokens
\* of its text, under its category and under its brand.
C26_FailedUpdateLeavesProductIndexed ==
  [][(/\ last'.op = "update"
      /\ last'.id \in DOMAIN products
      /\ last'.error /= NoError)
     => LET p == products[last'.id]
        IN /\ products'[last'.id] = p
           /\ UNCHANGED indexVars
           /\ \A t \in TokensOf(p) : last'.id \in Listed(searchIndex', t)
           /\ Truthy(p.category) =>
                last'.id \in Listed(categoryIndex', toLowerCase(p.category))
           /\ Truthy(p.brand) =>
                last'.id \in Listed(brandIndex', toLowerCase(p.brand))]_vars

\* an update of a stored product has failed validation
C26_Witness ==
  /\ last.op = "update"
  /\ last.id \in DOMAIN products
  /\ last.error /= NoError

\* C27: every successful add of a product without a productId is assigned an
\* id that is not a key of the primary map, also after products with supplied
\* ids were added: it stores one more product and replaces none.
C27_IssuedIdsAreFresh ==
  [][(/\ last'.op = "add"
      /\ last'.error = NoError
      /\ nextId' = nextId + 1)
     => /\ last'.id \notin DOMAIN products
        /\ Cardinality(DOMAIN products') = Cardinality(DOMAIN products) + 1
        /\ \A id \in DOMAIN products : products'[id] = products[id]]_vars

\* a product without a productId has been added after one with a supplied id
C27_Witness ==
  /\ last.op = "add"
  /\ last.error = NoError
  /\ nextId = 2
  /\ 1 \in DOMAIN products
  /\ products[1].title = sTv

-----------------------------------------------------------------------------
(* Properties of the festive search service *)

\* C28: injectNewProductsInResults returns a permutation of the list it is
\* given, so the totalResults of a response of the festive service is the
\* number of candidates that passed the filters, and a first page that has
\* room for all of them holds each of them once.
C28_InjectionKeepsEveryProduct ==
  [][(/\ last'.op = "search"
      /\ last'.step \in {"miss", "computed"}
      /\ inflight'[last'.id].phase = "caching")
     => LET q          == last'.q
            candidates == IF last'.step = "computed" THEN inflight[last'.id].products
                          ELSE AllProducts(products)
            passed     == SelectSeq(candidates, LAMBDA product : matchesFilters(q, product))
            results    == inflight'[last'.id].results
        IN /\ results.totalResults = Len(passed)
           /\ (q.offset = 0 /\ q.limit >= Len(passed))
                => /\ Len(results.data) = Len(passed)
                   /\ \A i \in 1..Len(passed) :
                        Cardinality({j \in 1..Len(results.data) :
                                       results.data[j].productId = passed[i].productId}) = 1]_vars

\* the festive service has answered a first page for three products that
\* passed the filters
C28_Witness ==
  /\ last.op = "search"
  /\ last.step \in {"miss", "computed"}
  /\ inflight[last.id].phase = "caching"
  /\ last.q.offset = 0
  /\ Len(SelectSeq(AllProducts(products),
                   LAMBDA product : matchesFilters(last.q, product))) = 3

-----------------------------------------------------------------------------
(* Properties of the responses the cache hands out *)

\* C29: a response served from the result cache equals the response that
\* search computed for the key and returned to the caller of the completed
\* search: what that caller did with its response does not show in it.
C29_CacheHitIsTheComputedResponse ==
  [][(last'.op = "search" /\ last'.step = "hit" /\ last'.again)
     => last'.response = served[last'.key].response]_vars

\* a search has been answered from the cache after advancedSearch received
\* the response of the key
C29_Witness ==
  /\ last.op = "search"
  /\ last.step = "hit"
  /\ "analytics" \in DOMAIN last.response

-----------------------------------------------------------------------------
(* Properties of the data service *)

\* the catalog that one load of the initial data leaves in a new repository
LoadedOnce ==
  LoadAll([products |-> EmptyMap, nextId |-> 1,
           ix |-> [search |-> EmptyMap, category |-> EmptyMap, brand |-> EmptyMap,
                   priceRange |-> EmptyMap, ratingBucket |-> EmptyMap,
                   stockStatus |-> EmptyMap],
           stats |-> [totalProducts |-> 0, totalIndexEntries |-> 0],
           successCount |-> 0, errorCount |-> 0],
          InitialData).products

\* C30: initialize creates the repository and the search service and loads
\* the initial data at most once, also when it is invoked again before an
\* earlier invocation has finished its load; once it has initialized, the
\* getters return the first instances, which hold the loaded data.
C30_InitializedOnce ==
  /\ dataService.productRepository <= 1
  /\ dataService.searchService <= 1
  /\ dataService.loads <= 1
  /\ dataService.initialized => products = LoadedOnce

\* initialize has been invoked twice and has initialized the data service
C30_Witness ==
  /\ Len(dataService.calls) = 2
  /\ dataService.initialized
  /\ \A call \in 1..2 : dataService.calls[call] = "done"

=============================================================================
